---- MODULE Spec2Model ----
(***************************************************************************)
(* Route-planning state engine of mapbox-react-ts.                         *)
(*                                                                         *)
(* The React component App (src/src/App.tsx) is modelled as a state        *)
(* machine: the useState cells are the variables, every event handler,     *)
(* promise continuation and timer callback is one action.  React 18        *)
(* (createRoot) batches the state updates of one handler and commits them  *)
(* before the next event is dispatched, so a synchronous handler reads the *)
(* committed state, while the continuation of an await and a debounced     *)
(* callback keep reading the values of the render that created them        *)
(* (their closure); those captured values are stored in the pending        *)
(* operation.  Functional updates (setCurrentRoute(prev => ...)) read the  *)
(* committed state.                                                        *)
(*                                                                         *)
(* A map coordinate [lng, lat] is abstracted to one integer of Coords.     *)
(* Every handler that assigns origin.coordinates, destination.coordinates  *)
(* or rerouteSnapPoint stores a freshly allocated array, so the Object.is  *)
(* comparison of the effect's dependency list reports a change exactly     *)
(* when one of these fields has been assigned.                             *)
(***************************************************************************)
EXTENDS Integers, Sequences, FiniteSets, TLC

VARIABLES
  app,            \* which App component of the repository is mounted
  currentRoute,   \* useState<CurrentRoute>
  routes,         \* useState<Route[]>, the saved routes
  routeCounter,   \* useState<number>
  contextMenu,    \* useState<ContextMenuProps> (visible, lngLat)
  isDragging,     \* useState(false): the route line is being dragged
  markerDrag,     \* the marker the pointer is dragging, "none" if none
  rid,            \* identity of the committed render
  caches,         \* contents of the reverseGeocodeCache Map of each live render
  geoInFlight,    \* geocoding requests awaiting their response
  timers,         \* pending timers (debouncedUpdateRoute, window.setTimeout)
  dirInFlight,    \* directions requests awaiting their response
  snapInFlight,   \* map-matching requests awaiting their response
  snapTimers,     \* pending timers of debouncedSnapPointToRoad instances
  snapResult,     \* what the debouncedSnapPointToRoad of this render returns
  inputValue,     \* AddressEntry: useState(value)
  suggestions,    \* AddressEntry: useState([])
  timerId,        \* AddressEntry: useState<number | null>(null)
  selectedRouteIndex, \* part_006: useState<number>(0)
  calls,          \* part_006: the getRoutes calls that have not returned
  points,         \* part_006: useState<number[][]>([])
  op,             \* the handler or continuation that ran last
  issued,         \* the directions requests the last step issued, in order
  notices,        \* console.error calls about a route fetch made by the last step
  reply,          \* the response the last step handed to its continuation
  resolved,       \* the cache keys a reverse-geocoding call returned a place for
  assigned,       \* the ids given to saved routes so far, in the order given
  budget          \* user gestures the model still follows

\* The state of the AddressEntry component and of the App of part_006
entryVars == <<inputValue, suggestions, timerId>>
altVars == <<selectedRouteIndex, calls, points>>

vars == <<app, currentRoute, routes, routeCounter, contextMenu, isDragging,
          markerDrag, rid, caches, geoInFlight, timers, dirInFlight,
          snapInFlight, snapTimers, snapResult, inputValue, suggestions,
          timerId, selectedRouteIndex, calls, points, op, issued, notices,
          reply, resolved, assigned, budget>>

----------------------------------------------------------------------------
(* Bounds of the model *)

NCoord == 2
MaxEvents == 5
MaxRouteEvents == 16
MaxPending == 2
MaxDragEvents == 7
MaxEditEvents == 12
MaxText == 3
MaxEntryEvents == 4
MaxPath == 2
MaxNative == 3
MaxAltEvents == 2
MaxSnapEditEvents == 7
MaxPointEvents == 3

(* Values *)

AppMain == "App.tsx"
AppSaved == "part_005"

Coords == 1..NCoord
null == 0
UnknownLocation == -2
UnknownAddress == -1
NoFeature == -1
undefined == -3
maxRouteCount == 2

NullWaypoint == [coordinates |-> null, address |-> null]
NullGeometry == [type |-> "null", coordinates |-> <<>>]
IsSet(w) == w # NullWaypoint

\* A pending closure is left by a gesture (at most MaxEvents + 1 of them are
\* followed where closures pile up), so this many renders can be live
\* besides the committed one
RenderIds == 0..(MaxEvents + 2)

\* lng.toFixed(5), lat.toFixed(5): neighbouring coordinates share a key
Quantize(c) == (c + 1) \div 2

\* data.features[0].place_name of the reverse-geocoding response for c
PlaceName(c) == 100 + c

\* data.routes[0].geometry of the directions response for a coordinate list
Geometry(coordinates) == [type |-> "LineString", coordinates |-> coordinates]

\* A splice that drops the last element whatever the index
RemoveLast(s, i) == SubSeq(s, 1, Len(s) - 1)

\* s.splice(i, 1), counting from 1
Remove(s, i) == SubSeq(s, 1, i - 1) \o SubSeq(s, i + 1, Len(s))

\* No response reached a continuation in the step
NoReply == [kind |-> "none"]

\* The debounced function has not run yet, or its promise is not settled
NoResult == [settled |-> FALSE]

----------------------------------------------------------------------------
(* The reverseGeocodeCache Map.  The Map is created in the body of the     *)
(* component, so every render owns a new, empty one; the closures of a     *)
(* render keep sharing the Map of that render.                             *)

CacheHas(m, key) == \E e \in m : e[1] = key
CacheGet(m, key) == (CHOOSE e \in m : e[1] = key)[2]
CacheSet(m, key, address) == {e \in m : e[1] # key} \cup {<<key, address>>}

LiveRids(geo, tmr) ==
  {geo[i].rid : i \in DOMAIN geo} \cup {tmr[i].rid : i \in DOMAIN tmr}

\* The renders whose debouncedSnapPointToRoad has a timer or a request pending
SnapRids ==
  {snapTimers[i].rid : i \in DOMAIN snapTimers}
    \cup {snapInFlight[i].rid : i \in DOMAIN snapInFlight}

\* A commit renders the component again: the new render gets an identity no
\* pending closure holds (nor a render of keep), an empty Map and a
\* debouncedSnapPointToRoad that has not run; the Map of a render that no
\* closure holds any more is garbage.
RerenderKeeping(c, geo, tmr, keep) ==
  LET live == LiveRids(geo, tmr)
      held == live \cup SnapRids \cup keep
      r == CHOOSE x \in RenderIds :
             x \notin held /\ \A y \in RenderIds : y \notin held => x <= y
  IN /\ rid' = r
     /\ caches' = [x \in RenderIds |-> IF x \in live THEN c[x] ELSE {}]
     /\ snapResult' = NoResult

Rerender(c, geo, tmr) == RerenderKeeping(c, geo, tmr, {})

\* The committed render stays
StayRendered(c, geo, tmr) ==
  /\ rid' = rid
  /\ caches' = [x \in RenderIds |->
                 IF x \in LiveRids(geo, tmr) \cup {rid} THEN c[x] ELSE {}]

\* No state cell changed: the committed render stays.
NoRerender(c, geo, tmr) ==
  /\ StayRendered(c, geo, tmr)
  /\ UNCHANGED snapResult

\* A user gesture: the model follows the user for a bounded number of them
Gesture == budget > 0 /\ budget' = budget - 1

----------------------------------------------------------------------------
(* src/src/App.tsx: route fetching *)

\* The coordinate list [origin, rerouteSnapPoint?, destination] of a request
Coordinates(cr) ==
  <<cr.origin.coordinates>>
    \o (IF cr.rerouteSnapPoint \notin {null, undefined}
        THEN <<cr.rerouteSnapPoint>> ELSE <<>>)
    \o <<cr.destination.coordinates>>

\* fetchRoute up to its await, reading the currentRoute of its closure: the
\* directions requests it issues, each addressed to the current route (to 0)
FetchRoute(cr) ==
  IF IsSet(cr.origin) /\ IsSet(cr.destination)
  THEN <<[coordinates |-> Coordinates(cr), to |-> 0, overtaken |-> FALSE]>>
  ELSE <<>>

\* The requests are kept in the order they were issued.  When the response
\* of request i is applied, every request issued before it for the same
\* route is noted as overtaken: the code keeps no such note, the request
\* carries it for the properties.
Overtake(reqs, i) ==
  [k \in DOMAIN reqs |->
     IF k < i /\ reqs[k].to = reqs[i].to
     THEN [reqs[k] EXCEPT !.overtaken = TRUE] ELSE reqs[k]]

\* The effect runs after a commit that changed one of its dependencies
EffectFetchRoute(depsChanged, cr) ==
  IF depsChanged THEN FetchRoute(cr) ELSE <<>>

\* A continuation that blanks the geometry when no route came back
ApplyDirectionsClearing(prev, coordinates, data) ==
  IF data = "ok" THEN [prev EXCEPT !.geometry = Geometry(coordinates)]
  ELSE [prev EXCEPT !.geometry = NullGeometry]

\* The continuation of fetchRoute after the response.  data is "ok" (a
\* non-empty routes array), "empty" (no routes) or "error" (fetch or
\* response.json() throws).
ApplyDirections(prev, coordinates, data) ==
  IF data = "ok" THEN [prev EXCEPT !.geometry = Geometry(coordinates)] ELSE prev

\* console.error("Error fetching route:", error) is all a failure emits
RouteErrors(data) == IF data = "error" THEN 1 ELSE 0

Outcomes == {"ok", "empty", "error"}

----------------------------------------------------------------------------
(* src/src/App.tsx: the Save Route button *)

\* A Save Route guard that forgets the geometry
CanSaveWithoutGeometry(cr) == IsSet(cr.origin) /\ IsSet(cr.destination)

CanSave(cr) ==
  IsSet(cr.origin) /\ IsSet(cr.destination) /\ cr.geometry # NullGeometry

SavedRoute(cr, newRouteId) ==
  [id |-> newRouteId, origin |-> cr.origin, destination |-> cr.destination,
   geometry |-> cr.geometry]

EmptyRoute(id) ==
  [present |-> TRUE, id |-> id, origin |-> NullWaypoint,
   destination |-> NullWaypoint, rerouteSnapPoint |-> null,
   geometry |-> NullGeometry]

\* A Save Route that starts the next current route under the id just saved
PromoteStaleId(cr, rs, counter) ==
  [routes |-> Append(rs, SavedRoute(cr, counter)),
   currentRoute |-> EmptyRoute(counter),
   routeCounter |-> counter + 1]

\* The three state updates of the click handler, from the routes and the
\* routeCounter of the committed render
Promote(cr, rs, counter) ==
  LET newRouteId == counter
  IN [routes |-> Append(rs, SavedRoute(cr, newRouteId)),
      currentRoute |-> EmptyRoute(newRouteId + 1),
      routeCounter |-> newRouteId + 1]

SaveRoute ==
  /\ Gesture
  /\ UNCHANGED <<entryVars, altVars>>
  /\ app = AppMain
  /\ markerDrag = "none"
  /\ IF CanSave(currentRoute)
     THEN LET next == Promote(currentRoute, routes, routeCounter)
          IN /\ routes' = next.routes
             /\ currentRoute' = next.currentRoute
             /\ routeCounter' = next.routeCounter
             /\ assigned' = Append(assigned, next.routes[Len(next.routes)].id)
             /\ Rerender(caches, geoInFlight, timers)
     ELSE /\ UNCHANGED <<routes, currentRoute, routeCounter, assigned>>
          /\ NoRerender(caches, geoInFlight, timers)
  \* the dependencies of the effect became null: it runs and fetches nothing
  /\ issued' = EffectFetchRoute(CanSave(currentRoute), currentRoute')
  /\ dirInFlight' = dirInFlight \o issued'
  /\ op' = "SaveRoute"
  /\ notices' = 0
  /\ UNCHANGED resolved
  /\ reply' = NoReply
  /\ UNCHANGED <<app, contextMenu, isDragging, markerDrag, geoInFlight, timers,
                 snapInFlight, snapTimers>>

----------------------------------------------------------------------------
(* src/src/App.tsx: context menu and reverse geocoding *)

handleContextMenu(c) ==
  /\ Gesture
  /\ UNCHANGED <<entryVars, altVars>>
  /\ app = AppMain
  /\ markerDrag = "none"
  /\ contextMenu' = [visible |-> TRUE, lngLat |-> c]
  /\ Rerender(caches, geoInFlight, timers)
  /\ op' = "handleContextMenu"
  /\ issued' = <<>>
  /\ notices' = 0
  /\ UNCHANGED resolved
  /\ reply' = NoReply
  /\ UNCHANGED <<app, assigned, currentRoute, routes, routeCounter, isDragging,
                 markerDrag, geoInFlight, timers, dirInFlight, snapInFlight, snapTimers>>

handleMapClick ==
  /\ Gesture
  /\ UNCHANGED <<entryVars, altVars>>
  /\ app = AppMain
  /\ markerDrag = "none"
  /\ IF contextMenu.visible
     THEN /\ contextMenu' = [contextMenu EXCEPT !.visible = FALSE]
          /\ Rerender(caches, geoInFlight, timers)
     ELSE /\ UNCHANGED contextMenu
          /\ NoRerender(caches, geoInFlight, timers)
  /\ op' = "handleMapClick"
  /\ issued' = <<>>
  /\ notices' = 0
  /\ UNCHANGED resolved
  /\ reply' = NoReply
  /\ UNCHANGED <<app, assigned, currentRoute, routes, routeCounter, isDragging,
                 markerDrag, geoInFlight, timers, dirInFlight, snapInFlight, snapTimers>>

\* The edits of one endpoint made the same way are kept in the order the user
\* made them.  When the address of edit i is applied, every earlier one still
\* waiting is noted as overtaken (a note for the properties, as above).
OvertakeEdits(geo, i) ==
  [k \in DOMAIN geo |->
     IF k < i /\ geo[k].type = geo[i].type /\ geo[k].src = geo[i].src
     THEN [geo[k] EXCEPT !.overtaken = TRUE] ELSE geo[k]]

SetEndpoint(prev, type, waypoint) ==
  IF type = "origin" THEN [prev EXCEPT !.origin = waypoint]
  ELSE [prev EXCEPT !.destination = waypoint]

\* handleMenuItemClick after `await reverseGeocode`: address is the resolved
\* address, menu the contextMenu of the closure, c and geo the caches and the
\* geocode requests left once the lookup is done.
MenuItemResolved(type, lngLat, address, menu, c, geo) ==
  LET cr == SetEndpoint(currentRoute, type,
                        [coordinates |-> lngLat, address |-> address])
      reqs == EffectFetchRoute(TRUE, cr)
  IN /\ currentRoute' = cr
     /\ contextMenu' = [menu EXCEPT !.visible = FALSE]
     /\ geoInFlight' = geo
     /\ Rerender(c, geo, timers)
     /\ dirInFlight' = dirInFlight \o reqs
     /\ issued' = reqs
     /\ op' = "handleMenuItemClick"
     /\ notices' = 0
     /\ UNCHANGED <<app, assigned, routes, routeCounter, isDragging, markerDrag, timers,
                    snapInFlight, snapTimers>>

\* The body of debouncedUpdateRoute after `await reverseGeocode`: the
\* functional update, then fetchRoute() of the closure (closed over the
\* currentRoute cr of the render that handled the drag end), then the commit
\* and the effect.
UpdateRouteResolved(type, lngLat, address, cr, c, geo, tmr) ==
  LET new == SetEndpoint(currentRoute, type,
                         [coordinates |-> lngLat, address |-> address])
      reqs == FetchRoute(cr) \o EffectFetchRoute(TRUE, new)
  IN /\ currentRoute' = new
     /\ geoInFlight' = geo
     /\ timers' = tmr
     /\ Rerender(c, geo, tmr)
     /\ dirInFlight' = dirInFlight \o reqs
     /\ issued' = reqs
     /\ op' = "debouncedUpdateRoute"
     /\ notices' = 0
     /\ UNCHANGED <<app, assigned, routes, routeCounter, contextMenu, isDragging,
                    markerDrag, snapInFlight, snapTimers>>

\* reverseGeocode up to its await: a cached key returns at once
handleMenuItemClick(type) ==
  /\ Gesture
  /\ UNCHANGED <<entryVars, altVars>>
  /\ app = AppMain
  /\ markerDrag = "none"
  /\ contextMenu.visible
  /\ LET lngLat == contextMenu.lngLat
         key == Quantize(lngLat)
     IN IF CacheHas(caches[rid], key)
        THEN /\ MenuItemResolved(type, lngLat, CacheGet(caches[rid], key),
                                 contextMenu, caches, geoInFlight)
             /\ UNCHANGED resolved
             /\ reply' = NoReply
        ELSE /\ geoInFlight' = Append(geoInFlight,
                  [src |-> "menu", type |-> type, lngLat |-> lngLat,
                   rid |-> rid, menu |-> contextMenu, overtaken |-> FALSE])
             /\ NoRerender(caches, geoInFlight', timers)
             /\ op' = "reverseGeocode"
             /\ issued' = <<>>
             /\ notices' = 0
             /\ UNCHANGED resolved
             /\ reply' = NoReply
             /\ UNCHANGED <<app, assigned, currentRoute, routes, routeCounter,
                            contextMenu, isDragging, markerDrag, timers,
                            dirInFlight, snapInFlight, snapTimers>>

\* A reverseGeocode that caches what it returns, the sentinel too
reverseGeocodeCachingAll(m, lngLat, data) ==
  LET address == IF data = "ok" THEN PlaceName(lngLat) ELSE UnknownLocation
  IN [address |-> address, cache |-> CacheSet(m, Quantize(lngLat), address)]

\* reverseGeocode after its response, m being the Map of its closure: the
\* address it returns and the Map it leaves.  data is "ok" (features is not
\* empty), "empty" (no feature) or "error" (fetch or response.json() throws).
reverseGeocode(m, lngLat, data) ==
  IF data = "ok"
  THEN [address |-> PlaceName(lngLat),
        cache |-> CacheSet(m, Quantize(lngLat), PlaceName(lngLat))]
  ELSE [address |-> UnknownLocation, cache |-> m]

\* The reverse-geocoding response of request i: features[0].place_name is
\* cached in the Map of the closure and returned; no feature and a failed
\* fetch return "Unknown Location" and cache nothing.
GeocodeResponse(i, data) ==
  /\ UNCHANGED <<budget, entryVars, altVars>>
  /\ app = AppMain
  /\ i \in DOMAIN geoInFlight
  /\ LET g == geoInFlight[i]
         key == Quantize(g.lngLat)
         result == reverseGeocode(caches[g.rid], g.lngLat, data)
         address == result.address
         c == [caches EXCEPT ![g.rid] = result.cache]
         geo == Remove(OvertakeEdits(geoInFlight, i), i)
     IN /\ IF g.src = "menu"
           THEN MenuItemResolved(g.type, g.lngLat, address, g.menu, c, geo)
           ELSE UpdateRouteResolved(g.type, g.lngLat, address, g.cr, c, geo,
                                    timers)
        /\ resolved' = (IF data = "ok" THEN resolved \cup {key} ELSE resolved)
        /\ reply' = [kind |-> "geocode", data |-> data, type |-> g.type,
                     lngLat |-> g.lngLat, overtaken |-> g.overtaken]

----------------------------------------------------------------------------
(* src/src/App.tsx: endpoint markers and address entries *)

\* The pointer holds a marker from its first drag event to its dragend, and
\* the marker fires dragend only after a drag event.
handleCurrentMarkerDrag(type, c) ==
  /\ Gesture
  /\ UNCHANGED <<entryVars, altVars>>
  /\ app = AppMain
  /\ markerDrag \in {"none", type}
  /\ IsSet(currentRoute[type])
  /\ LET prev == currentRoute[type]
         waypoint == [coordinates |-> c,
                      address |-> IF IsSet(prev) THEN prev.address
                                  ELSE UnknownAddress]
         cr == SetEndpoint(currentRoute, type, waypoint)
         reqs == EffectFetchRoute(TRUE, cr)
     IN /\ currentRoute' = cr
        /\ dirInFlight' = dirInFlight \o reqs
        /\ issued' = reqs
  /\ markerDrag' = type
  /\ Rerender(caches, geoInFlight, timers)
  /\ op' = "handleCurrentMarkerDrag"
  /\ notices' = 0
  /\ UNCHANGED resolved
  /\ reply' = NoReply
  /\ UNCHANGED <<app, assigned, routes, routeCounter, contextMenu, isDragging,
                 geoInFlight, timers, snapInFlight, snapTimers>>

\* handleCurrentMarkerDragEnd: event.lngLat is where the marker stands.  The
\* call starts the timer of the debouncedUpdateRoute of this render; no other
\* call reaches that instance, because a drag event (a commit) precedes every
\* dragend.
handleCurrentMarkerDragEnd(type) ==
  /\ Gesture
  /\ UNCHANGED <<entryVars, altVars>>
  /\ app = AppMain
  /\ markerDrag = type
  /\ IsSet(currentRoute[type])
     /\ timers' = Append(timers, [type |-> type,
                               lngLat |-> currentRoute[type].coordinates,
                               rid |-> rid, cr |-> currentRoute])
  /\ markerDrag' = "none"
  /\ NoRerender(caches, geoInFlight, timers')
  /\ op' = "handleCurrentMarkerDragEnd"
  /\ issued' = <<>>
  /\ notices' = 0
  /\ UNCHANGED resolved
  /\ reply' = NoReply
  /\ UNCHANGED <<app, assigned, currentRoute, routes, routeCounter, contextMenu,
                 isDragging, geoInFlight, dirInFlight, snapInFlight, snapTimers>>

\* 1000 ms after the drag end the debounced function runs up to the await of
\* reverseGeocode, in the closure of the render that started the timer.  The
\* timers have one delay, so the one started first fires first.
DebounceTimerFires(i) ==
  /\ UNCHANGED <<budget, entryVars, altVars>>
  /\ app = AppMain
  /\ i \in DOMAIN timers
  /\ i = 1
  /\ LET t == timers[i]
         key == Quantize(t.lngLat)
         tmr == Remove(timers, i)
     IN IF CacheHas(caches[t.rid], key)
        THEN /\ UpdateRouteResolved(t.type, t.lngLat,
                                    CacheGet(caches[t.rid], key), t.cr, caches,
                                    geoInFlight, tmr)
             /\ UNCHANGED resolved
             /\ reply' = NoReply
        ELSE /\ timers' = tmr
             /\ geoInFlight' = Append(geoInFlight,
                  [src |-> "drag", type |-> t.type, lngLat |-> t.lngLat,
                   rid |-> t.rid, cr |-> t.cr, overtaken |-> FALSE])
             /\ NoRerender(caches, geoInFlight', tmr)
             /\ op' = "reverseGeocode"
             /\ issued' = <<>>
             /\ notices' = 0
             /\ UNCHANGED resolved
             /\ reply' = NoReply
             /\ UNCHANGED <<app, assigned, currentRoute, routes, routeCounter,
                            contextMenu, isDragging, markerDrag, dirInFlight,
                            snapInFlight, snapTimers>>

\* onSelect of the AddressEntry of an endpoint: a suggestion (place_name,
\* center) of the forward geocoder is written as the waypoint
AddressEntryOnSelect(type, c) ==
  /\ Gesture
  /\ UNCHANGED <<entryVars, altVars>>
  /\ app = AppMain
  /\ markerDrag = "none"
  /\ IsSet(currentRoute[type])
  /\ LET cr == SetEndpoint(currentRoute, type,
                           [coordinates |-> c, address |-> PlaceName(c)])
         reqs == EffectFetchRoute(TRUE, cr)
     IN /\ currentRoute' = cr
        /\ dirInFlight' = dirInFlight \o reqs
        /\ issued' = reqs
  /\ Rerender(caches, geoInFlight, timers)
  /\ op' = "AddressEntry.onSelect"
  /\ notices' = 0
  /\ UNCHANGED resolved
  /\ reply' = NoReply
  /\ UNCHANGED <<app, assigned, routes, routeCounter, contextMenu, isDragging,
                 markerDrag, geoInFlight, timers, snapInFlight, snapTimers>>

\* The response of directions request i reaches the continuation of fetchRoute
DirectionsResponse(i, data) ==
  /\ UNCHANGED <<budget, entryVars, altVars>>
  /\ app = AppMain
  /\ i \in DOMAIN dirInFlight
  /\ dirInFlight[i].to = 0
  /\ currentRoute' = ApplyDirections(currentRoute, dirInFlight[i].coordinates,
                                     data)
  /\ dirInFlight' = Remove(IF data = "ok" THEN Overtake(dirInFlight, i)
                            ELSE dirInFlight, i)
  /\ IF data = "ok" THEN Rerender(caches, geoInFlight, timers)
     ELSE NoRerender(caches, geoInFlight, timers)
  /\ op' = "fetchRoute." \o data
  /\ issued' = <<>>
  /\ notices' = RouteErrors(data)
  /\ UNCHANGED resolved
  /\ reply' = [kind |-> "directions", data |-> data,
               coordinates |-> dirInFlight[i].coordinates,
               overtaken |-> dirInFlight[i].overtaken]
  /\ UNCHANGED <<app, assigned, routes, routeCounter, contextMenu, isDragging,
                 markerDrag, geoInFlight, timers, snapInFlight, snapTimers>>

----------------------------------------------------------------------------
(* src/src/App.tsx: dragging the route line *)

ENABLE_ROUTE_SNAPPING == TRUE

\* The layers the map reports features of: interactiveLayerIds holds only
\* route-line-<currentRoute.id>, which is rendered while a geometry exists.
\* A layer is named by the route id in its layer id.
InteractiveLayers ==
  IF currentRoute.geometry # NullGeometry THEN {currentRoute.id} ELSE {}

\* A handleMouseDown that looks at the flag only
StartsDragAnywhere(enabled, layer, id) == enabled

\* handleMouseDown starts a drag: the flag is on and the top feature under
\* the pointer is of the layer route-line-<id of the current route>
StartsDrag(enabled, layer, id) == enabled /\ layer # NoFeature /\ layer = id

\* layer: the layer of e.features[0], NoFeature when e.features is empty
handleMouseDown(layer) ==
  /\ Gesture
  /\ UNCHANGED <<entryVars, altVars>>
  /\ app = AppMain
  /\ markerDrag = "none"
  /\ IF StartsDrag(ENABLE_ROUTE_SNAPPING, layer, currentRoute.id)
     THEN /\ isDragging' = TRUE
          \* setIsDragging(true) on true is no change of state
          /\ IF isDragging THEN NoRerender(caches, geoInFlight, timers)
             ELSE Rerender(caches, geoInFlight, timers)
     ELSE /\ UNCHANGED isDragging
          /\ NoRerender(caches, geoInFlight, timers)
  /\ op' = "handleMouseDown"
  /\ issued' = <<>>
  /\ notices' = 0
  /\ UNCHANGED resolved
  /\ reply' = [kind |-> "pointer", layer |-> layer]
  /\ UNCHANGED <<app, assigned, currentRoute, routes, routeCounter, contextMenu,
                 markerDrag, geoInFlight, timers, dirInFlight, snapInFlight,
                 snapTimers>>

\* A map-matching request for point.  src is "up" (snapPointToRoad called by
\* handleMouseUp, whose then is attached at once) or "move" (called by the
\* timer of the debounce instance of render r); thens counts the callbacks
\* attached to its promise, latest tells that the promise is what the
\* instance returns.
SnapRequest(point, src, r) ==
  [point |-> point, src |-> src, rid |-> r,
   thens |-> IF src = "up" THEN 1 ELSE 0, latest |-> src = "move"]

\* The timers of the moves made before a release, noted as such: the code
\* keeps no such note and cancels no timer, the timer carries it for the
\* properties.
Released(tmr) == [k \in DOMAIN tmr |-> [tmr[k] EXCEPT !.held = FALSE]]

\* The pointer is released at c; snapPointToRoad issues the map-matching
\* request when the current route has a geometry
handleMouseUp(c) ==
  /\ Gesture
  /\ UNCHANGED <<entryVars, altVars>>
  /\ app = AppMain
  /\ markerDrag = "none"
  /\ IF ~isDragging
     THEN /\ UNCHANGED <<isDragging, snapInFlight, snapTimers>>
          /\ NoRerender(caches, geoInFlight, timers)
     ELSE /\ isDragging' = FALSE
          /\ snapTimers' = Released(snapTimers)
          /\ IF ENABLE_ROUTE_SNAPPING /\ currentRoute.geometry # NullGeometry
             THEN /\ snapInFlight' =
                       Append(snapInFlight, SnapRequest(c, "up", -1))
             ELSE UNCHANGED snapInFlight
          /\ Rerender(caches, geoInFlight, timers)
  /\ op' = "handleMouseUp"
  /\ issued' = <<>>
  /\ notices' = 0
  /\ UNCHANGED resolved
  /\ reply' = NoReply
  /\ UNCHANGED <<app, assigned, currentRoute, routes, routeCounter, contextMenu,
                 markerDrag, geoInFlight, timers, dirInFlight>>

\* The pointer moves to c.  While the line is dragged the call reaches the
\* debounce instance of the committed render: it starts the 500 ms timer of
\* the instance anew with c as its argument and returns what the last run of
\* snapPointToRoad by this instance returned.  Nothing (no run yet) has no
\* then; a pending promise gets one more callback; a settled promise runs the
\* callback once the handler has returned, which writes the snap point.
handleMouseMove(c) ==
  /\ Gesture
  /\ UNCHANGED <<entryVars, altVars>>
  /\ app = AppMain
  /\ markerDrag = "none"
  /\ UNCHANGED resolved
  /\ IF ~(isDragging /\ ENABLE_ROUTE_SNAPPING
            /\ currentRoute.geometry # NullGeometry)
     THEN /\ NoRerender(caches, geoInFlight, timers)
          /\ issued' = <<>>
          /\ reply' = NoReply
          /\ UNCHANGED <<currentRoute, dirInFlight, snapInFlight, snapTimers>>
     ELSE /\ snapTimers' =
               Append(SelectSeq(snapTimers, LAMBDA t : t.rid # rid),
                      [rid |-> rid, lngLat |-> c, held |-> TRUE])
          /\ IF snapResult.settled
             THEN LET cr == [currentRoute EXCEPT
                               !.rerouteSnapPoint = snapResult.value]
                      reqs == EffectFetchRoute(TRUE, cr)
                  IN /\ currentRoute' = cr
                     /\ dirInFlight' = dirInFlight \o reqs
                     /\ issued' = reqs
                     /\ reply' = [kind |-> "snap", src |-> "move",
                                  point |-> snapResult.point,
                                  data |-> snapResult.data,
                                  value |-> snapResult.value,
                                  written |-> TRUE]
                     /\ RerenderKeeping(caches, geoInFlight, timers, {rid})
                     /\ UNCHANGED snapInFlight
             ELSE /\ snapInFlight' =
                       [k \in DOMAIN snapInFlight |->
                          IF snapInFlight[k].rid = rid /\ snapInFlight[k].latest
                          THEN [snapInFlight[k] EXCEPT !.thens = @ + 1]
                          ELSE snapInFlight[k]]
                  /\ NoRerender(caches, geoInFlight, timers)
                  /\ issued' = <<>>
                  /\ reply' = NoReply
                  /\ UNCHANGED <<currentRoute, dirInFlight>>
  /\ op' = "handleMouseMove"
  /\ notices' = 0
  /\ UNCHANGED <<app, assigned, routes, routeCounter, contextMenu, isDragging,
                 markerDrag, geoInFlight, timers>>

\* 500 ms after the last call of an instance its timer runs snapPointToRoad
\* with the argument of that call; the promise becomes what the instance
\* returns.  The timers have one delay, so the one started first fires first.
SnapTimerFires(i) ==
  /\ UNCHANGED <<budget, entryVars, altVars>>
  /\ app = AppMain
  /\ i \in DOMAIN snapTimers
  /\ i = 1
  /\ LET t == snapTimers[i]
     IN /\ snapInFlight' =
             Append([k \in DOMAIN snapInFlight |->
                       IF snapInFlight[k].rid = t.rid
                       THEN [snapInFlight[k] EXCEPT !.latest = FALSE]
                       ELSE snapInFlight[k]],
                    SnapRequest(t.lngLat, "move", t.rid))
        /\ snapResult' = (IF t.rid = rid THEN NoResult ELSE snapResult)
  /\ snapTimers' = Remove(snapTimers, i)
  /\ StayRendered(caches, geoInFlight, timers)
  /\ op' = "debouncedSnapPointToRoad"
  /\ issued' = <<>>
  /\ notices' = 0
  /\ UNCHANGED resolved
  /\ reply' = NoReply
  /\ UNCHANGED <<app, assigned, currentRoute, routes, routeCounter, contextMenu,
                 isDragging, markerDrag, geoInFlight, timers, dirInFlight>>

\* snapPointToRoad after its response.  matched is what
\* data.matchings[0].geometry.coordinates[0] evaluates to when matchings is
\* not empty (a coordinate, or undefined when the coordinates array is
\* empty), and null when there is no matching or the try block throws (a
\* failed fetch, a body that is not JSON, a matching without geometry).
SnappedPoint(point, matched) == IF matched # null THEN matched ELSE point

\* The response of map-matching request i settles its promise: the callbacks
\* attached to it write the snap point; with no callback the value stays with
\* the instance when the promise is still what it returns.
SnapResponse(i, matched) ==
  /\ UNCHANGED <<budget, entryVars, altVars>>
  /\ app = AppMain
  /\ i \in DOMAIN snapInFlight
  /\ LET s == snapInFlight[i]
         value == SnappedPoint(s.point, matched)
         cr == [currentRoute EXCEPT !.rerouteSnapPoint = value]
         reqs == EffectFetchRoute(TRUE, cr)
     IN /\ IF s.thens > 0
           THEN /\ currentRoute' = cr
                /\ dirInFlight' = dirInFlight \o reqs
                /\ issued' = reqs
                /\ Rerender(caches, geoInFlight, timers)
                /\ op' = "snapPointToRoad"
           ELSE /\ UNCHANGED <<currentRoute, dirInFlight>>
                /\ issued' = <<>>
                /\ StayRendered(caches, geoInFlight, timers)
                /\ snapResult' =
                     (IF s.rid = rid /\ s.latest
                      THEN [settled |-> TRUE, point |-> s.point,
                            data |-> matched, value |-> value]
                      ELSE snapResult)
                /\ op' = "snapPointToRoad.dropped"
        /\ reply' = [kind |-> "snap", src |-> s.src, point |-> s.point,
                     data |-> matched, value |-> value,
                     written |-> s.thens > 0]
  /\ snapInFlight' = Remove(snapInFlight, i)
  /\ notices' = 0
  /\ UNCHANGED resolved
  /\ UNCHANGED <<app, assigned, routes, routeCounter, contextMenu, isDragging,
                 markerDrag, geoInFlight, timers, snapTimers>>

----------------------------------------------------------------------------
(* Specification of src/src/App.tsx *)

NoPending ==
  /\ rid = 0
  /\ caches = [x \in RenderIds |-> {}]
  /\ geoInFlight = <<>>
  /\ timers = <<>>
  /\ dirInFlight = <<>>
  /\ snapInFlight = <<>>
  /\ snapTimers = <<>>
  /\ snapResult = NoResult
  /\ markerDrag = "none"
  /\ op = "mount"
  /\ issued = <<>>
  /\ notices = 0
  /\ reply = NoReply
  /\ resolved = {}
  /\ assigned = <<>>
  /\ inputValue = <<>>
  /\ suggestions = <<>>
  /\ timerId = null
  /\ selectedRouteIndex = 0
  /\ calls = <<>>
  /\ points = <<>>

Init ==
  /\ app = AppMain
  /\ currentRoute = EmptyRoute(0)
  /\ routes = <<>>
  /\ routeCounter = 1
  /\ contextMenu = [visible |-> FALSE, lngLat |-> 0]
  /\ isDragging = FALSE
  /\ NoPending
  /\ budget = MaxEvents

Next ==
  \/ \E c \in Coords : handleContextMenu(c)
  \/ handleMapClick
  \/ \E type \in {"origin", "destination"} : handleMenuItemClick(type)
  \/ \E i \in 1..MaxEvents, data \in Outcomes : GeocodeResponse(i, data)
  \/ \E type \in {"origin", "destination"}, c \in Coords :
       handleCurrentMarkerDrag(type, c)
  \/ \E type \in {"origin", "destination"} : handleCurrentMarkerDragEnd(type)
  \/ \E i \in 1..MaxEvents : DebounceTimerFires(i)
  \/ \E type \in {"origin", "destination"}, c \in Coords :
       AddressEntryOnSelect(type, c)
  \/ \E i \in 1..(2 * MaxEvents), data \in Outcomes : DirectionsResponse(i, data)
  \/ SaveRoute
  \/ \E layer \in InteractiveLayers \cup {NoFeature} : handleMouseDown(layer)
  \/ \E c \in Coords : handleMouseUp(c)
  \/ \E c \in Coords : handleMouseMove(c)
  \/ \E i \in 1..MaxEvents : SnapTimerFires(i)
  \/ \E i \in 1..MaxEvents, matched \in Coords \cup {null, undefined} :
       SnapResponse(i, matched)

Spec == Init /\ [][Next]_vars

\* The same component followed for one more gesture
InitLong ==
  /\ app = AppMain
  /\ currentRoute = EmptyRoute(0)
  /\ routes = <<>>
  /\ routeCounter = 1
  /\ contextMenu = [visible |-> FALSE, lngLat |-> 0]
  /\ isDragging = FALSE
  /\ NoPending
  /\ budget = MaxEvents + 1

SpecLong == InitLong /\ [][Next]_vars

----------------------------------------------------------------------------
(* src/unnamed/part_005: the App that also edits its saved routes.         *)
(* currentRoute is null until an origin is set and has neither an id nor a *)
(* snap point; reverseGeocode has no cache and nothing is debounced, so    *)
(* rid, caches and timers are not used.  The handlers mutate a saved route *)
(* in place: the object is identified by its ref, and every array holding  *)
(* it (the committed routes, the routes captured by a pending closure)     *)
(* shows the mutation.                                                     *)

Unmounted == "unmounted"

\* useState<CurrentRoute | null>(null), and a spread of null
NullRoute == [EmptyRoute(0) EXCEPT !.present = FALSE]

\* The route objects the committed array and the pending closures hold
Refs(rs, geo) ==
  {rs[i].ref : i \in DOMAIN rs}
    \cup UNION {{geo[i].rs[k].ref : k \in DOMAIN geo[i].rs} : i \in DOMAIN geo}

\* The identity of a newly allocated route object
NewRef(rs, geo) ==
  LET held == Refs(rs, geo)
  IN CHOOSE r \in 1..(Cardinality(held) + 1) :
       r \notin held /\ \A q \in 1..(r - 1) : q \in held

\* updatedRoutes[index].<type>.coordinates = ..., .address = ... on object ref
MutateEndpoint(rs, ref, type, waypoint) ==
  [i \in DOMAIN rs |->
     IF rs[i].ref = ref THEN SetEndpoint(rs[i], type, waypoint) ELSE rs[i]]

\* updatedRoutes[routeIndex].geometry = geometry on object ref
MutateGeometry(rs, ref, geometry) ==
  [i \in DOMAIN rs |->
     IF rs[i].ref = ref THEN [rs[i] EXCEPT !.geometry = geometry] ELSE rs[i]]

\* The same mutations as the pending closures see them
ClosuresAfterEndpoint(geo, ref, type, waypoint) ==
  [i \in DOMAIN geo |->
     [geo[i] EXCEPT !.rs = MutateEndpoint(@, ref, type, waypoint)]]

ClosuresAfterGeometry(geo, ref, geometry) ==
  [i \in DOMAIN geo |-> [geo[i] EXCEPT !.rs = MutateGeometry(@, ref, geometry)]]

handleContextMenu_part005(c) ==
  /\ Gesture
  /\ UNCHANGED <<entryVars, altVars>>
  /\ app = AppSaved
  /\ contextMenu' = [visible |-> TRUE, lngLat |-> c]
  /\ op' = "handleContextMenu"
  /\ issued' = <<>>
  /\ notices' = 0
  /\ UNCHANGED resolved
  /\ reply' = NoReply
  /\ UNCHANGED <<app, assigned, currentRoute, routes, routeCounter, isDragging,
                 markerDrag, rid, caches, geoInFlight, timers, dirInFlight,
                 snapInFlight, snapTimers, snapResult>>

handleMapClick_part005 ==
  /\ Gesture
  /\ UNCHANGED <<entryVars, altVars>>
  /\ app = AppSaved
  /\ IF contextMenu.visible
     THEN contextMenu' = [contextMenu EXCEPT !.visible = FALSE]
     ELSE UNCHANGED contextMenu
  /\ op' = "handleMapClick"
  /\ issued' = <<>>
  /\ notices' = 0
  /\ UNCHANGED resolved
  /\ reply' = NoReply
  /\ UNCHANGED <<app, assigned, currentRoute, routes, routeCounter, isDragging,
                 markerDrag, rid, caches, geoInFlight, timers, dirInFlight,
                 snapInFlight, snapTimers, snapResult>>

\* reverseGeocode after its response: the place name of the first feature,
\* "Unknown Location" when there is none or the fetch failed
reverseGeocode_part005(lngLat, data) ==
  IF data = "ok" THEN PlaceName(lngLat) ELSE UnknownLocation

\* The effect of part_005 fetches over [origin, destination]
FetchRoute_part005(cr) ==
  IF cr.present /\ IsSet(cr.origin) /\ IsSet(cr.destination)
  THEN <<[coordinates |-> <<cr.origin.coordinates, cr.destination.coordinates>>,
          to |-> 0, overtaken |-> FALSE]>>
  ELSE <<>>

EffectFetchRoute_part005(depsChanged, cr) ==
  IF depsChanged THEN FetchRoute_part005(cr) ELSE <<>>

\* fetchAndUpdateRoute up to its await: the request, addressed to an index
FetchAndUpdateRoute(originCoords, destinationCoords, routeIndex) ==
  <<[coordinates |-> <<originCoords, destinationCoords>>, to |-> routeIndex,
     overtaken |-> FALSE]>>

\* The requests of an edit of the saved route object ref, noted as such: the
\* code passes the index only, the request carries the object for the
\* properties.
ForRoute(reqs, ref) ==
  [k \in DOMAIN reqs |->
     [f \in DOMAIN reqs[k] \cup {"edited"} |->
        IF f = "edited" THEN ref ELSE reqs[k][f]]]

\* handleMenuItemClick up to `await reverseGeocode`: the continuation keeps
\* the contextMenu, the currentRoute and the routes of this render
handleMenuItemClick_part005(action) ==
  /\ Gesture
  /\ UNCHANGED <<entryVars, altVars>>
  /\ app = AppSaved
  /\ contextMenu.visible
  /\ geoInFlight' = Append(geoInFlight,
       [src |-> "menu", type |-> action, lngLat |-> contextMenu.lngLat,
        index |-> 0, cr |-> currentRoute, rs |-> routes, menu |-> contextMenu])
  /\ op' = "reverseGeocode"
  /\ issued' = <<>>
  /\ notices' = 0
  /\ UNCHANGED resolved
  /\ reply' = NoReply
  /\ UNCHANGED <<app, assigned, currentRoute, routes, routeCounter, contextMenu,
                 isDragging, markerDrag, rid, caches, timers, dirInFlight,
                 snapInFlight, snapTimers, snapResult>>

\* The branch handleMenuItemClick takes, decided by the closure g
MenuBranch(g) ==
  IF g.type = "origin"
  THEN (IF g.cr.present THEN "update" ELSE "new")
  ELSE IF g.cr.present /\ IsSet(g.cr.origin) THEN "update"
  ELSE IF Len(g.rs) > 0 THEN "latest"
  ELSE "none"

\* handleMenuItemClick after the await: g is the closure, geo the requests
\* that stay pending.  "update" is the functional update of the committed
\* current route, "new" replaces it, "latest" writes the destination into the
\* last route of the closure's array and refetches that route by its index.
MenuItemResolved_part005(g, address, geo) ==
  LET waypoint == [coordinates |-> g.lngLat, address |-> address]
      branch == MenuBranch(g)
      latestRouteIndex == Len(g.rs)
      ref == g.rs[latestRouteIndex].ref
      cr == CASE branch = "update" ->
                   [SetEndpoint(currentRoute, g.type, waypoint)
                      EXCEPT !.present = TRUE]
              [] branch = "new" -> [EmptyRoute(0) EXCEPT !.origin = waypoint]
              [] OTHER -> currentRoute
      reqs == (IF branch = "latest"
               THEN ForRoute(
                      FetchAndUpdateRoute(
                        g.rs[latestRouteIndex].origin.coordinates, g.lngLat,
                        latestRouteIndex), ref)
               ELSE <<>>)
              \o EffectFetchRoute_part005(branch \in {"update", "new"}, cr)
  IN /\ currentRoute' = cr
     /\ IF branch = "latest"
        THEN /\ routes' = MutateEndpoint(routes, ref, "destination", waypoint)
             /\ geoInFlight' =
                  ClosuresAfterEndpoint(geo, ref, "destination", waypoint)
        ELSE /\ routes' = routes
             /\ geoInFlight' = geo
     /\ contextMenu' = [g.menu EXCEPT !.visible = FALSE]
     /\ dirInFlight' = dirInFlight \o reqs
     /\ issued' = reqs
     /\ op' = "handleMenuItemClick"
     /\ notices' = 0
     /\ UNCHANGED <<app, assigned, routeCounter, isDragging, markerDrag, rid,
                    caches, timers, snapInFlight, snapTimers, snapResult>>

\* handleCurrentMarkerDragEnd up to its await: the marker of a set endpoint
\* of the current route is dropped at c
handleCurrentMarkerDragEnd_part005(type, c) ==
  /\ Gesture
  /\ UNCHANGED <<entryVars, altVars>>
  /\ app = AppSaved
  /\ currentRoute.present /\ IsSet(currentRoute[type])
  /\ geoInFlight' = Append(geoInFlight,
       [src |-> "drag", type |-> type, lngLat |-> c, index |-> 0,
        cr |-> currentRoute, rs |-> <<>>, menu |-> contextMenu])
  /\ op' = "reverseGeocode"
  /\ issued' = <<>>
  /\ notices' = 0
  /\ UNCHANGED resolved
  /\ reply' = NoReply
  /\ UNCHANGED <<app, assigned, currentRoute, routes, routeCounter, contextMenu,
                 isDragging, markerDrag, rid, caches, timers, dirInFlight,
                 snapInFlight, snapTimers, snapResult>>

\* handleCurrentMarkerDragEnd after the await
CurrentMarkerResolved_part005(g, address, geo) ==
  LET waypoint == [coordinates |-> g.lngLat, address |-> address]
      cr == IF g.cr.present
            THEN [SetEndpoint(currentRoute, g.type, waypoint)
                    EXCEPT !.present = TRUE]
            ELSE currentRoute
      reqs == EffectFetchRoute_part005(g.cr.present, cr)
  IN /\ currentRoute' = cr
     /\ geoInFlight' = geo
     /\ dirInFlight' = dirInFlight \o reqs
     /\ issued' = reqs
     /\ op' = "handleCurrentMarkerDragEnd"
     /\ notices' = 0
     /\ UNCHANGED <<app, assigned, routes, routeCounter, contextMenu, isDragging,
                    markerDrag, rid, caches, timers, snapInFlight, snapTimers, snapResult>>

\* handleRouteMarkerDragEnd up to its await: a marker of saved route index is
\* dropped at c; the continuation keeps the routes of this render
handleRouteMarkerDragEnd(index, type, c) ==
  /\ Gesture
  /\ UNCHANGED <<entryVars, altVars>>
  /\ app = AppSaved
  /\ index \in DOMAIN routes
  /\ geoInFlight' = Append(geoInFlight,
       [src |-> "route", type |-> type, lngLat |-> c, index |-> index,
        cr |-> NullRoute, rs |-> routes, menu |-> contextMenu])
  /\ op' = "reverseGeocode"
  /\ issued' = <<>>
  /\ notices' = 0
  /\ UNCHANGED resolved
  /\ reply' = NoReply
  /\ UNCHANGED <<app, assigned, currentRoute, routes, routeCounter, contextMenu,
                 isDragging, markerDrag, rid, caches, timers, dirInFlight,
                 snapInFlight, snapTimers, snapResult>>

\* handleRouteMarkerDragEnd after the await: the object at index of the
\* closure's array is mutated, no state is set, and the route is refetched
\* for that index
RouteMarkerResolved(g, address, geo) ==
  LET waypoint == [coordinates |-> g.lngLat, address |-> address]
      ref == g.rs[g.index].ref
      updated == MutateEndpoint(g.rs, ref, g.type, waypoint)[g.index]
      reqs == ForRoute(
                FetchAndUpdateRoute(updated.origin.coordinates,
                                    updated.destination.coordinates, g.index),
                ref)
  IN /\ routes' = MutateEndpoint(routes, ref, g.type, waypoint)
     /\ geoInFlight' = ClosuresAfterEndpoint(geo, ref, g.type, waypoint)
     /\ dirInFlight' = dirInFlight \o reqs
     /\ issued' = reqs
     /\ op' = "handleRouteMarkerDragEnd"
     /\ notices' = 0
     /\ UNCHANGED <<app, assigned, currentRoute, routeCounter, contextMenu,
                    isDragging, markerDrag, rid, caches, timers, snapInFlight, snapTimers, snapResult>>

\* The reverse-geocoding response of request i
GeocodeResponse_part005(i, data) ==
  /\ UNCHANGED <<budget, entryVars, altVars>>
  /\ app = AppSaved
  /\ i \in DOMAIN geoInFlight
  /\ LET g == geoInFlight[i]
         address == reverseGeocode_part005(g.lngLat, data)
         geo == Remove(geoInFlight, i)
     IN /\ CASE g.src = "menu" -> MenuItemResolved_part005(g, address, geo)
             [] g.src = "drag" -> CurrentMarkerResolved_part005(g, address, geo)
             [] g.src = "route" -> RouteMarkerResolved(g, address, geo)
        /\ UNCHANGED resolved
        \* branch, latest: the branch a context-menu action took and the
        \* route that was saved last when it was made (notes for the
        \* properties)
        /\ reply' = [kind |-> "geocode", data |-> data, type |-> g.type,
                     lngLat |-> g.lngLat, overtaken |-> FALSE,
                     branch |-> IF g.src = "menu" THEN MenuBranch(g)
                                ELSE "other",
                     latest |-> IF g.src = "menu" /\ Len(g.rs) > 0
                                THEN g.rs[Len(g.rs)].ref ELSE 0]

\* onSelect of the AddressEntry of an endpoint of the current route
AddressEntryOnSelect_part005(type, c) ==
  /\ Gesture
  /\ UNCHANGED <<entryVars, altVars>>
  /\ app = AppSaved
  /\ currentRoute.present /\ IsSet(currentRoute[type])
  /\ LET cr == SetEndpoint(currentRoute, type,
                           [coordinates |-> c, address |-> PlaceName(c)])
         reqs == EffectFetchRoute_part005(TRUE, cr)
     IN /\ currentRoute' = cr
        /\ dirInFlight' = dirInFlight \o reqs
        /\ issued' = reqs
  /\ op' = "AddressEntry.onSelect"
  /\ notices' = 0
  /\ UNCHANGED resolved
  /\ reply' = NoReply
  /\ UNCHANGED <<app, assigned, routes, routeCounter, contextMenu, isDragging,
                 markerDrag, rid, caches, geoInFlight, timers, snapInFlight, snapTimers, snapResult>>

\* onSelect of the AddressEntry of an endpoint of saved route index
RouteAddressEntryOnSelect(index, type, c) ==
  /\ Gesture
  /\ UNCHANGED <<entryVars, altVars>>
  /\ app = AppSaved
  /\ index \in DOMAIN routes
  /\ LET waypoint == [coordinates |-> c, address |-> PlaceName(c)]
         ref == routes[index].ref
         reqs == ForRoute(
                   IF type = "origin"
                   THEN FetchAndUpdateRoute(
                          c, routes[index].destination.coordinates, index)
                   ELSE FetchAndUpdateRoute(
                          routes[index].origin.coordinates, c, index),
                   ref)
     IN /\ routes' = MutateEndpoint(routes, ref, type, waypoint)
        /\ geoInFlight' = ClosuresAfterEndpoint(geoInFlight, ref, type, waypoint)
        /\ dirInFlight' = dirInFlight \o reqs
        /\ issued' = reqs
  /\ op' = "Route.AddressEntry.onSelect"
  /\ notices' = 0
  /\ UNCHANGED resolved
  /\ reply' = NoReply
  /\ UNCHANGED <<app, assigned, currentRoute, routeCounter, contextMenu,
                 isDragging, markerDrag, rid, caches, timers, snapInFlight, snapTimers, snapResult>>

\* The continuation of the effect's fetchRoute: a spread of null gives an
\* object that has the geometry only
ApplyDirections_part005(prev, coordinates, data) ==
  IF data = "ok"
  THEN [prev EXCEPT !.geometry = Geometry(coordinates), !.present = TRUE]
  ELSE prev

\* The response of directions request i.  The continuation of
\* fetchAndUpdateRoute assigns to prevRoutes[routeIndex].geometry in the
\* updater: with no route at that index the assignment throws a TypeError
\* while React renders, and React unmounts the component.
DirectionsResponse_part005(i, data) ==
  /\ UNCHANGED <<budget, entryVars, altVars>>
  /\ app = AppSaved
  /\ i \in DOMAIN dirInFlight
  /\ LET d == dirInFlight[i]
         geometry == Geometry(d.coordinates)
     IN /\ IF d.to = 0
           THEN /\ currentRoute' =
                     ApplyDirections_part005(currentRoute, d.coordinates, data)
                /\ UNCHANGED <<app, routes, geoInFlight>>
           ELSE IF data # "ok"
           THEN UNCHANGED <<app, currentRoute, routes, geoInFlight>>
           ELSE IF d.to \in DOMAIN routes
           THEN /\ routes' = MutateGeometry(routes, routes[d.to].ref, geometry)
                /\ geoInFlight' = ClosuresAfterGeometry(
                                    geoInFlight, routes[d.to].ref, geometry)
                /\ UNCHANGED <<app, currentRoute>>
           ELSE /\ app' = Unmounted
                /\ UNCHANGED <<currentRoute, routes, geoInFlight>>
        /\ op' = (IF d.to = 0 THEN "fetchRoute." ELSE "fetchAndUpdateRoute.")
                   \o data
  /\ dirInFlight' = Remove(dirInFlight, i)
  /\ issued' = <<>>
  /\ notices' = RouteErrors(data)
  /\ UNCHANGED resolved
  /\ reply' = [kind |-> "directions", data |-> data,
               coordinates |-> dirInFlight[i].coordinates,
               overtaken |-> dirInFlight[i].overtaken,
               to |-> dirInFlight[i].to,
               edited |-> IF dirInFlight[i].to = 0 THEN 0
                          ELSE dirInFlight[i].edited]
  /\ UNCHANGED <<assigned, routeCounter, contextMenu, isDragging, markerDrag,
                 rid, caches, timers, snapInFlight, snapTimers, snapResult>>

\* The Save Location button
CanSave_part005(cr) ==
  cr.present /\ IsSet(cr.origin) /\ IsSet(cr.destination)
    /\ cr.geometry # NullGeometry

\* A Save Location that numbers a route by its place in the list
PromoteByLength_part005(cr, rs, counter, ref) ==
  [routes |-> Append(rs, [ref |-> ref, id |-> Len(rs) + 1,
                          origin |-> cr.origin,
                          destination |-> cr.destination,
                          geometry |-> cr.geometry]),
   currentRoute |-> NullRoute,
   routeCounter |-> counter + 1]

Promote_part005(cr, rs, counter, ref) ==
  [routes |-> Append(rs, [ref |-> ref, id |-> counter, origin |-> cr.origin,
                          destination |-> cr.destination,
                          geometry |-> cr.geometry]),
   currentRoute |-> NullRoute,
   routeCounter |-> counter + 1]

SaveLocation ==
  /\ Gesture
  /\ UNCHANGED <<entryVars, altVars>>
  /\ app = AppSaved
  /\ IF CanSave_part005(currentRoute)
     THEN LET next == Promote_part005(currentRoute, routes, routeCounter,
                                      NewRef(routes, geoInFlight))
          IN /\ routes' = next.routes
             /\ currentRoute' = next.currentRoute
             /\ routeCounter' = next.routeCounter
             /\ assigned' = Append(assigned, next.routes[Len(next.routes)].id)
     ELSE UNCHANGED <<routes, currentRoute, routeCounter, assigned>>
  /\ op' = "SaveLocation"
  /\ issued' = <<>>
  /\ notices' = 0
  /\ UNCHANGED resolved
  /\ reply' = NoReply
  /\ UNCHANGED <<app, contextMenu, isDragging, markerDrag, rid, caches,
                 geoInFlight, timers, dirInFlight, snapInFlight, snapTimers, snapResult>>

\* removeRoute(index) of the Remove Location button of saved route index
removeRoute(index) ==
  /\ Gesture
  /\ UNCHANGED <<entryVars, altVars>>
  /\ app = AppSaved
  /\ index \in DOMAIN routes
  /\ routes' = Remove(routes, index)
  /\ op' = "removeRoute"
  /\ issued' = <<>>
  /\ notices' = 0
  /\ UNCHANGED resolved
  /\ reply' = [kind |-> "remove", index |-> index]
  /\ UNCHANGED <<app, assigned, currentRoute, routeCounter, contextMenu,
                 isDragging, markerDrag, rid, caches, geoInFlight, timers,
                 dirInFlight, snapInFlight, snapTimers, snapResult>>

----------------------------------------------------------------------------
(* Specification of src/unnamed/part_005 *)

InitSaved ==
  /\ app = AppSaved
  /\ currentRoute = NullRoute
  /\ routes = <<>>
  /\ routeCounter = 1
  /\ contextMenu = [visible |-> FALSE, lngLat |-> 0]
  /\ isDragging = FALSE
  /\ NoPending
  /\ budget = MaxEvents + 1

NextSaved ==
  \/ \E c \in Coords : handleContextMenu_part005(c)
  \/ handleMapClick_part005
  \/ \E action \in {"origin", "destination"} : handleMenuItemClick_part005(action)
  \/ \E type \in {"origin", "destination"}, c \in Coords :
       handleCurrentMarkerDragEnd_part005(type, c)
  \/ \E index \in 1..MaxEvents, type \in {"origin", "destination"}, c \in Coords :
       handleRouteMarkerDragEnd(index, type, c)
  \/ \E i \in 1..(MaxEvents + 1), data \in Outcomes :
       GeocodeResponse_part005(i, data)
  \/ \E type \in {"origin", "destination"}, c \in Coords :
       AddressEntryOnSelect_part005(type, c)
  \/ \E index \in 1..MaxEvents, type \in {"origin", "destination"}, c \in Coords :
       RouteAddressEntryOnSelect(index, type, c)
  \/ \E i \in 1..(2 * MaxEvents), data \in Outcomes :
       DirectionsResponse_part005(i, data)
  \/ SaveLocation
  \/ \E index \in 1..MaxEvents : removeRoute(index)

SpecSaved == InitSaved /\ [][NextSaved]_vars

----------------------------------------------------------------------------
(* Saving and removing routes, in both components, followed for            *)
(* MaxRouteEvents gestures: the user picks every endpoint at one place     *)
(* with the context menu and the services answer every request.            *)

RouteCoords == {CHOOSE c \in Coords : TRUE}

\* The user waits while MaxPending requests are unanswered
Patient == Len(geoInFlight) + Len(dirInFlight) < MaxPending

InitRoutes ==
  /\ app \in {AppMain, AppSaved}
  /\ currentRoute = (IF app = AppMain THEN EmptyRoute(0) ELSE NullRoute)
  /\ routes = <<>>
  /\ routeCounter = 1
  /\ contextMenu = [visible |-> FALSE, lngLat |-> 0]
  /\ isDragging = FALSE
  /\ NoPending
  /\ budget = MaxRouteEvents

NextRoutes ==
  \/ \E c \in RouteCoords : Patient /\ handleContextMenu(c)
  \/ \E type \in {"origin", "destination"} :
       Patient /\ handleMenuItemClick(type)
  \/ \E i \in 1..MaxPending : GeocodeResponse(i, "ok")
  \/ \E i \in 1..(2 * MaxPending) : DirectionsResponse(i, "ok")
  \/ Patient /\ SaveRoute
  \/ \E c \in RouteCoords : Patient /\ handleContextMenu_part005(c)
  \/ \E action \in {"origin", "destination"} :
       Patient /\ handleMenuItemClick_part005(action)
  \/ \E i \in 1..MaxPending : GeocodeResponse_part005(i, "ok")
  \/ \E i \in 1..(2 * MaxPending) : DirectionsResponse_part005(i, "ok")
  \/ Patient /\ SaveLocation
  \/ \E index \in 1..MaxRouteEvents : Patient /\ removeRoute(index)

SpecRoutes == InitRoutes /\ [][NextRoutes]_vars

----------------------------------------------------------------------------
(* Editing and removing the saved routes of part_005, followed for         *)
(* MaxEditEvents gestures: the user sets up every route at one place with  *)
(* the context menu, then moves the endpoints of saved routes anywhere,    *)
(* removes routes and saves new ones.                                      *)

InitEdit ==
  /\ app = AppSaved
  /\ currentRoute = NullRoute
  /\ routes = <<>>
  /\ routeCounter = 1
  /\ contextMenu = [visible |-> FALSE, lngLat |-> 0]
  /\ isDragging = FALSE
  /\ NoPending
  /\ budget = MaxEditEvents

NextEdit ==
  \/ \E c \in RouteCoords : Patient /\ handleContextMenu_part005(c)
  \/ \E action \in {"origin", "destination"} :
       Patient /\ handleMenuItemClick_part005(action)
  \/ \E i \in 1..MaxPending : GeocodeResponse_part005(i, "ok")
  \/ \E i \in 1..MaxPending, data \in Outcomes :
       DirectionsResponse_part005(i, data)
  \/ Patient /\ SaveLocation
  \/ \E index \in 1..MaxEditEvents : removeRoute(index)
  \/ \E index \in 1..MaxEditEvents, type \in {"origin", "destination"},
        c \in Coords :
       Patient /\ handleRouteMarkerDragEnd(index, type, c)
  \/ \E index \in 1..MaxEditEvents, type \in {"origin", "destination"},
        c \in Coords :
       Patient /\ RouteAddressEntryOnSelect(index, type, c)

SpecEdit == InitEdit /\ [][NextEdit]_vars

----------------------------------------------------------------------------
(* Dragging the route line of App.tsx, followed for MaxDragEvents gestures: *)
(* the user sets the endpoints at one place with the context menu, the      *)
(* geocoding service answers every request, and the pointer presses, moves  *)
(* and releases anywhere.                                                   *)

InitDrag ==
  /\ app = AppMain
  /\ currentRoute = EmptyRoute(0)
  /\ routes = <<>>
  /\ routeCounter = 1
  /\ contextMenu = [visible |-> FALSE, lngLat |-> 0]
  /\ isDragging = FALSE
  /\ NoPending
  /\ budget = MaxDragEvents

NextDrag ==
  \/ \E c \in RouteCoords : Patient /\ handleContextMenu(c)
  \/ \E type \in {"origin", "destination"} :
       Patient /\ handleMenuItemClick(type)
  \/ \E i \in 1..MaxPending : GeocodeResponse(i, "ok")
  \/ \E i \in 1..MaxDragEvents, data \in Outcomes :
       DirectionsResponse(i, data)
  \/ \E layer \in InteractiveLayers \cup {NoFeature} : handleMouseDown(layer)
  \/ \E c \in Coords : handleMouseMove(c)
  \/ \E c \in Coords : handleMouseUp(c)
  \/ \E i \in 1..MaxDragEvents : SnapTimerFires(i)
  \/ \E i \in 1..MaxDragEvents, matched \in Coords \cup {null, undefined} :
       SnapResponse(i, matched)

SpecDrag == InitDrag /\ [][NextDrag]_vars

----------------------------------------------------------------------------
(* src/unnamed/part_000: the AddressEntry component.  A text is a sequence  *)
(* of characters.  handleChange is a discrete event: React commits its      *)
(* state updates before the next event, so the handler of the next change   *)
(* reads the timerId this one set.  timers holds the callbacks given to     *)
(* window.setTimeout that were neither run nor cleared, geoInFlight the     *)
(* forward-geocoding requests awaiting their response.                      *)

AppEntry == "part_000"

Chars == {"a", "b"}

\* The texts the user gives the input element: the empty text and up to
\* MaxText times one character
Texts == UNION {{[k \in 1..n |-> c] : c \in Chars} : n \in 0..MaxText}

\* window.setTimeout returns a positive integer it has not returned before:
\* the number of the gesture that makes the call
NewTimerId == MaxEntryEvents - budget + 1

\* A clearTimeout that clears nothing
ClearNothing(tmr, id) == tmr

\* if (timerId) clearTimeout(timerId): null clears nothing, and so does the
\* id of a timer that has run
ClearTimeout(tmr, id) == SelectSeq(tmr, LAMBDA t : t.id # id)

\* A test that lets a text of two characters through
SearchableFrom2(newValue) == Len(newValue) >= 2

\* newValue.length > 2
Searchable(newValue) == Len(newValue) > 2

\* data.features of the response for a query that matched
Features(query) == <<[place_name |-> query \o query, center |-> Len(query)]>>

SearchOutcomes == {"ok", "empty", "nofeatures", "error"}

\* The changes a timer stands for: the change that started it and the
\* changes whose timers were cleared in a row before it (a note for the
\* properties, the code keeps no such count)
Burst(tmr, id) ==
  IF \E k \in DOMAIN tmr : tmr[k].id = id
  THEN 1 + (CHOOSE n \in 1..MaxEntryEvents + 1 :
              \E k \in DOMAIN tmr : tmr[k].id = id /\ tmr[k].burst = n)
  ELSE 1

\* onChange of the input: e.target.value is newValue
handleChange(newValue) ==
  /\ Gesture
  /\ app = AppEntry
  /\ inputValue' = newValue
  /\ timers' = Append(ClearTimeout(timers, timerId),
                      [id |-> NewTimerId, newValue |-> newValue,
                       burst |-> Burst(timers, timerId)])
  /\ timerId' = NewTimerId
  /\ op' = "handleChange"
  /\ reply' = NoReply
  /\ UNCHANGED <<suggestions, geoInFlight>>
  /\ UNCHANGED <<app, currentRoute, routes, routeCounter, contextMenu,
                 isDragging, markerDrag, rid, caches, dirInFlight,
                 snapInFlight, snapTimers, snapResult, altVars, issued,
                 notices, resolved, assigned>>

\* The callback of window.setTimeout, 300 ms after the call, up to its await
\* of fetch.  The timers have one delay, so the one started first runs first.
SearchTimerFires(i) ==
  /\ UNCHANGED budget
  /\ app = AppEntry
  /\ i \in DOMAIN timers
  /\ i = 1
  /\ LET newValue == timers[i].newValue
     IN IF Searchable(newValue)
        THEN /\ geoInFlight' = Append(geoInFlight, [query |-> newValue])
             /\ UNCHANGED suggestions
        ELSE /\ suggestions' = <<>>
             /\ UNCHANGED geoInFlight
  /\ timers' = Remove(timers, i)
  /\ op' = "setTimeout"
  /\ reply' = [kind |-> "timeout", newValue |-> timers[i].newValue,
               burst |-> timers[i].burst]
  /\ UNCHANGED <<inputValue, timerId>>
  /\ UNCHANGED <<app, currentRoute, routes, routeCounter, contextMenu,
                 isDragging, markerDrag, rid, caches, dirInFlight,
                 snapInFlight, snapTimers, snapResult, altVars, issued,
                 notices, resolved, assigned>>

\* The response of forward-geocoding request i.  data is "ok" (features is
\* not empty), "empty" (features is empty), "nofeatures" (a body without
\* features) or "error" (fetch or response.json() throws: the callback has
\* no catch, and the suggestions stay).
SearchResponse(i, data) ==
  /\ UNCHANGED budget
  /\ app = AppEntry
  /\ i \in DOMAIN geoInFlight
  /\ suggestions' = CASE data = "ok" -> Features(geoInFlight[i].query)
                      [] data = "error" -> suggestions
                      [] OTHER -> <<>>
  /\ geoInFlight' = Remove(geoInFlight, i)
  /\ op' = "setSuggestions"
  /\ reply' = [kind |-> "search", data |-> data,
               query |-> geoInFlight[i].query]
  /\ UNCHANGED <<inputValue, timerId, timers>>
  /\ UNCHANGED <<app, currentRoute, routes, routeCounter, contextMenu,
                 isDragging, markerDrag, rid, caches, dirInFlight,
                 snapInFlight, snapTimers, snapResult, altVars, issued,
                 notices, resolved, assigned>>

\* A click on suggestion k, or Enter for the first one: the input shows the
\* place name, the list closes, onSelect goes to the parent.  No timer is
\* cleared.
handleSelect(k) ==
  /\ Gesture
  /\ app = AppEntry
  /\ k \in DOMAIN suggestions
  /\ inputValue' = suggestions[k].place_name
  /\ suggestions' = <<>>
  /\ op' = "handleSelect"
  /\ reply' = NoReply
  /\ UNCHANGED <<timerId, timers, geoInFlight>>
  /\ UNCHANGED <<app, currentRoute, routes, routeCounter, contextMenu,
                 isDragging, markerDrag, rid, caches, dirInFlight,
                 snapInFlight, snapTimers, snapResult, altVars, issued,
                 notices, resolved, assigned>>

\* handleKeyDown: Enter selects the first suggestion when there is one
handleKeyDown ==
  IF Len(suggestions) > 0 THEN handleSelect(1)
  ELSE /\ Gesture
       /\ app = AppEntry
       /\ op' = "handleKeyDown"
       /\ reply' = NoReply
       /\ UNCHANGED <<entryVars, timers, geoInFlight>>
       /\ UNCHANGED <<app, currentRoute, routes, routeCounter, contextMenu,
                      isDragging, markerDrag, rid, caches, dirInFlight,
                      snapInFlight, snapTimers, snapResult, altVars, issued,
                      notices, resolved, assigned>>

\* The parent passes another value: the effect copies it into the input
valueEffect(value) ==
  /\ Gesture
  /\ app = AppEntry
  /\ value # inputValue
  /\ inputValue' = value
  /\ op' = "useEffect"
  /\ reply' = NoReply
  /\ UNCHANGED <<suggestions, timerId, timers, geoInFlight>>
  /\ UNCHANGED <<app, currentRoute, routes, routeCounter, contextMenu,
                 isDragging, markerDrag, rid, caches, dirInFlight,
                 snapInFlight, snapTimers, snapResult, altVars, issued,
                 notices, resolved, assigned>>

InitEntry ==
  /\ app = AppEntry
  /\ currentRoute = NullRoute
  /\ routes = <<>>
  /\ routeCounter = 1
  /\ contextMenu = [visible |-> FALSE, lngLat |-> 0]
  /\ isDragging = FALSE
  /\ NoPending
  /\ budget = MaxEntryEvents

NextEntry ==
  \/ \E newValue \in Texts : handleChange(newValue)
  \/ \E i \in 1..MaxEntryEvents : SearchTimerFires(i)
  \/ \E i \in 1..MaxEntryEvents, data \in SearchOutcomes :
       SearchResponse(i, data)
  \/ \E k \in 1..MaxEntryEvents : handleSelect(k)
  \/ handleKeyDown
  \/ \E value \in {<<>>, <<"a">>} : valueEffect(value)

SpecEntry == InitEntry /\ [][NextEntry]_vars

----------------------------------------------------------------------------
(* src/unnamed/part_006: the App that offers alternative routes.  getRoutes *)
(* is followed from call to return: data is its local array, a response    *)
(* of the directions service is an input of the step that receives it.  A   *)
(* route is known by geometry.coordinates (a list of [lng, lat] positions)  *)
(* and its distance.                                                        *)

AppAlt == "part_006"

Positions == {<<0, 1>>}

\* geometry.coordinates of the routes the service can return: paths of one
\* to MaxPath positions
Paths == UNION {[1..n -> Positions] : n \in 1..MaxPath}

Distances == {95, 120}

\* The routes the service can return
AltRoutes == [geometry : Paths, distance : Distances]

\* mainResponse.data.routes: what the service returns for the two points
NativeResponses == UNION {[1..n -> AltRoutes] : n \in 0..MaxNative}

\* coordinates.toString(): the numbers of all positions, joined by commas
RECURSIVE toString(_)
toString(coordinates) ==
  IF coordinates = <<>> THEN <<>>
  ELSE coordinates[1] \o toString(Tail(coordinates))

\* A sort that puts a route before the routes of its distance placed so far
RECURSIVE SortTiesReversed(_)
SortTiesReversed(rs) ==
  IF rs = <<>> THEN <<>>
  ELSE LET r == rs[Len(rs)]
           s == SortTiesReversed(SubSeq(rs, 1, Len(rs) - 1))
           n == Cardinality({k \in DOMAIN s : s[k].distance < r.distance})
       IN SubSeq(s, 1, n) \o <<r>> \o SubSeq(s, n + 1, Len(s))

\* data.sort((a, b) => a.distance - b.distance): Array.prototype.sort is
\* stable, a route goes behind the routes of its distance that precede it
RECURSIVE SortByDistance(_)
SortByDistance(rs) ==
  IF rs = <<>> THEN <<>>
  ELSE LET r == rs[Len(rs)]
           s == SortByDistance(SubSeq(rs, 1, Len(rs) - 1))
           n == Cardinality({k \in DOMAIN s : s[k].distance <= r.distance})
       IN SubSeq(s, 1, n) \o <<r>> \o SubSeq(s, n + 1, Len(s))

\* The uniqueness check of an additional route against data
isUnique(data, additionalRoute) ==
  \A k \in DOMAIN data :
    toString(data[k].geometry) # toString(additionalRoute.geometry)

\* A limit that keeps the whole array
SliceAll(data, count) == data

\* data.slice(0, count)
Slice(data, count) ==
  SubSeq(data, 1, IF Len(data) < count THEN Len(data) ELSE count)

\* The end of getRoutes: the list is cut, set, and its first route selected.
\* call is the call that ends, its index in calls is i.
SetRoutes(i, call, data) ==
  /\ routes' = Slice(data, maxRouteCount)
  /\ selectedRouteIndex' = 0
  /\ calls' = Remove(calls, i)
  /\ op' = "setRoutes"
  /\ notices' = 0
  /\ reply' = [kind |-> "routes", returned |-> Slice(data, maxRouteCount),
               candidates |-> call.candidates, requests |-> call.requests,
               points |-> call.points]

\* getRoutes(start, end) up to its first await.  The call notes the points
\* it was made for: the code keeps no such note, the call carries it for the
\* properties.
Call(pts) ==
  [pc |-> "main", data |-> <<>>, viaPoints |-> 0, candidates |-> <<>>,
   requests |-> 1, points |-> pts]

\* The effect runs getRoutes(points[0], points[1]) after a change of points
\* that leaves two of them: the call runs up to its first await
getRoutes ==
  /\ Gesture
  /\ app = AppAlt
  /\ calls' = Append(calls, Call(points))
  /\ op' = "getRoutes"
  /\ notices' = 0
  /\ reply' = NoReply
  /\ UNCHANGED <<routes, selectedRouteIndex, points>>
  /\ UNCHANGED <<app, currentRoute, routeCounter, contextMenu, isDragging,
                 markerDrag, rid, caches, geoInFlight, timers, dirInFlight,
                 snapInFlight, snapTimers, snapResult, entryVars, issued,
                 resolved, assigned>>

\* The response of the request with alternatives of call i.  native is
\* mainResponse.data.routes; the outcome "error" stands for a failed request
\* and for a body without routes (data.sort throws): the catch block alerts,
\* and the routes stay.  With fewer than maxRouteCount routes generateViaPoints makes
\* one via point for each route that is missing, and the loop fetches the
\* route through the first of them.
MainResponse(i, outcome, native) ==
  /\ UNCHANGED <<budget, entryVars, points>>
  /\ app = AppAlt
  /\ i \in DOMAIN calls
  /\ calls[i].pc = "main"
  /\ IF outcome = "error"
     THEN /\ calls' = Remove(calls, i)
          /\ op' = "getRoutes.catch"
          /\ notices' = 1
          /\ reply' = NoReply
          /\ UNCHANGED <<routes, selectedRouteIndex>>
     ELSE LET data == SortByDistance(native)
              additionalRoutesNeeded == maxRouteCount - Len(data)
              call == [calls[i] EXCEPT !.data = data, !.candidates = native]
          IN IF Len(data) < maxRouteCount
             THEN /\ calls' = [calls EXCEPT ![i] =
                               [call EXCEPT !.pc = "via",
                                            !.viaPoints = additionalRoutesNeeded,
                                            !.requests = @ + 1]]
                  /\ op' = "fetchRoute"
                  /\ notices' = 0
                  /\ reply' = NoReply
                  /\ UNCHANGED <<routes, selectedRouteIndex>>
             ELSE SetRoutes(i, call, data)
  /\ UNCHANGED <<app, currentRoute, routeCounter, contextMenu, isDragging,
                 markerDrag, rid, caches, geoInFlight, timers, dirInFlight,
                 snapInFlight, snapTimers, snapResult, issued, resolved,
                 assigned>>

\* The response of the via-point request call i waits for.  fetched is the
\* routes array of the response, empty when the request failed too:
\* fetchRoute returns its first route, or nothing.  A route that is unique
\* is pushed; the loop ends when data is full or the via points are used up,
\* else it fetches the route through the next via point.
ViaResponse(i, fetched) ==
  /\ UNCHANGED <<budget, entryVars, points>>
  /\ app = AppAlt
  /\ i \in DOMAIN calls
  /\ calls[i].pc = "via"
  /\ LET accepted == fetched # <<>> /\ isUnique(calls[i].data, fetched[1])
         data == IF accepted THEN Append(calls[i].data, fetched[1])
                 ELSE calls[i].data
         call == [calls[i] EXCEPT
                    !.data = data,
                    !.candidates = IF accepted THEN Append(@, fetched[1])
                                   ELSE @,
                    !.viaPoints = @ - 1]
     IN IF (accepted /\ Len(data) >= maxRouteCount) \/ call.viaPoints = 0
        THEN SetRoutes(i, call, data)
        ELSE /\ calls' = [calls EXCEPT ![i] = [call EXCEPT !.requests = @ + 1]]
             /\ op' = "fetchRoute"
             /\ notices' = 0
             /\ reply' = NoReply
             /\ UNCHANGED <<routes, selectedRouteIndex>>
  /\ UNCHANGED <<app, currentRoute, routeCounter, contextMenu, isDragging,
                 markerDrag, rid, caches, geoInFlight, timers, dirInFlight,
                 snapInFlight, snapTimers, snapResult, issued, resolved,
                 assigned>>

\* The user waits for the routes of a pair of points before moving a point
InitAlt ==
  /\ app = AppAlt
  /\ currentRoute = NullRoute
  /\ routes = <<>>
  /\ routeCounter = 1
  /\ contextMenu = [visible |-> FALSE, lngLat |-> 0]
  /\ isDragging = FALSE
  /\ NoPending
  /\ budget = MaxAltEvents

NextAlt ==
  \/ calls = <<>> /\ getRoutes
  \/ \E i \in 1..MaxAltEvents, native \in NativeResponses :
       MainResponse(i, "ok", native)
  \/ \E i \in 1..MaxAltEvents : MainResponse(i, "error", <<>>)
  \/ \E i \in 1..MaxAltEvents,
        fetched \in {<<>>} \cup {<<r>> : r \in AltRoutes} :
       ViaResponse(i, fetched)

SpecAlt == InitAlt /\ [][NextAlt]_vars

----------------------------------------------------------------------------
(* src/unnamed/part_006: the points, clicks on the map and marker drags *)

\* The places the user clicks and drops markers at: [lng, lat]
ClickCoords == {<<0, 0>>, <<1, 0>>, <<3, 0>>}

\* Math.hypot(p[0] - q[0], p[1] - q[1]), squared: the order of the distances
\* and their ties are those of the distances
Hypot2(p, q) ==
  (p[1] - q[1]) * (p[1] - q[1]) + (p[2] - q[2]) * (p[2] - q[2])

\* distances.indexOf(Math.min(...distances)): the first of the closest points
closestIndex(pts, newPoint) ==
  CHOOSE i \in DOMAIN pts :
    \A j \in DOMAIN pts :
      /\ Hypot2(pts[i], newPoint) <= Hypot2(pts[j], newPoint)
      /\ Hypot2(pts[i], newPoint) = Hypot2(pts[j], newPoint) => i <= j

\* replaceClosestPoint: the array it passes to setPoints
replaceClosestPoint(pts, newPoint) ==
  IF Len(pts) < 2 THEN Append(pts, newPoint)
  ELSE [pts EXCEPT ![closestIndex(pts, newPoint)] = newPoint]

\* The effect on [points]: every setPoints passes a new array, so the effect
\* runs after each of them and calls getRoutes when there are two points
EffectGetRoutes(pts, cs) == IF Len(pts) = 2 THEN Append(cs, Call(pts)) ELSE cs

\* properties.routeIndex of the features a click can hit: route-layer shows
\* the selected route, alternative-route-layer-<index> every other route
\* when there is more than one
RouteFeatures ==
  IF routes = <<>> THEN {}
  ELSE {selectedRouteIndex}
         \cup (IF Len(routes) > 1 THEN 0..(Len(routes) - 1) ELSE {})

\* onClick of the map.  feature is properties.routeIndex of e.features[0],
\* NoFeature when e.features is empty; c is e.lngLat.
handleMapClick_part006(feature, c) ==
  /\ Gesture
  /\ app = AppAlt
  /\ IF feature # NoFeature /\ feature # selectedRouteIndex
     THEN /\ selectedRouteIndex' = feature
          /\ op' = "setSelectedRouteIndex"
          /\ UNCHANGED <<points, calls>>
     ELSE /\ points' = replaceClosestPoint(points, c)
          /\ calls' = EffectGetRoutes(points', calls)
          /\ op' = "replaceClosestPoint"
          /\ UNCHANGED selectedRouteIndex
  /\ notices' = 0
  /\ reply' = [kind |-> "click", feature |-> feature, lngLat |-> c]
  /\ UNCHANGED routes
  /\ UNCHANGED <<app, currentRoute, routeCounter, contextMenu, isDragging,
                 markerDrag, rid, caches, geoInFlight, timers, dirInFlight,
                 snapInFlight, snapTimers, snapResult, entryVars, issued,
                 resolved, assigned>>

\* onDragEnd of the marker of point index (counted from 1 here)
handleMarkerDragEnd(index, c) ==
  /\ Gesture
  /\ app = AppAlt
  /\ index \in DOMAIN points
  /\ points' = [points EXCEPT ![index] = c]
  /\ calls' = EffectGetRoutes(points', calls)
  /\ op' = "handleMarkerDragEnd"
  /\ notices' = 0
  /\ reply' = NoReply
  /\ UNCHANGED <<routes, selectedRouteIndex>>
  /\ UNCHANGED <<app, currentRoute, routeCounter, contextMenu, isDragging,
                 markerDrag, rid, caches, geoInFlight, timers, dirInFlight,
                 snapInFlight, snapTimers, snapResult, entryVars, issued,
                 resolved, assigned>>

\* The responses of up to maxRouteCount routes: the routes behind them are
\* cut from every list
ShortResponses == {native \in NativeResponses : Len(native) <= maxRouteCount}

\* The user goes on while fewer than MaxPending calls of getRoutes are open
PatientAlt == Len(calls) < MaxPending

InitPoints ==
  /\ app = AppAlt
  /\ currentRoute = NullRoute
  /\ routes = <<>>
  /\ routeCounter = 1
  /\ contextMenu = [visible |-> FALSE, lngLat |-> 0]
  /\ isDragging = FALSE
  /\ NoPending
  /\ budget = MaxPointEvents

NextPoints ==
  \/ \E feature \in RouteFeatures \cup {NoFeature}, c \in ClickCoords :
       PatientAlt /\ handleMapClick_part006(feature, c)
  \/ \E index \in 1..2, c \in ClickCoords :
       PatientAlt /\ handleMarkerDragEnd(index, c)
  \/ \E i \in 1..MaxPending, native \in ShortResponses :
       MainResponse(i, "ok", native)
  \/ \E i \in 1..MaxPending : MainResponse(i, "error", <<>>)
  \/ \E i \in 1..MaxPending,
        fetched \in {<<>>} \cup {<<r>> : r \in AltRoutes} :
       ViaResponse(i, fetched)

SpecPoints == InitPoints /\ [][NextPoints]_vars

----------------------------------------------------------------------------
(* src/src/App.tsx: an endpoint marker moved while a drag of the route line
   is being settled.  One coordinate, every call answered with a result; the
   user waits while MaxPending requests are unanswered. *)

InitSnapEdit ==
  /\ app = AppMain
  /\ currentRoute = EmptyRoute(0)
  /\ routes = <<>>
  /\ routeCounter = 1
  /\ contextMenu = [visible |-> FALSE, lngLat |-> 0]
  /\ isDragging = FALSE
  /\ NoPending
  /\ budget = MaxSnapEditEvents

NextSnapEdit ==
  \/ \E c \in RouteCoords : Patient /\ handleContextMenu(c)
  \/ \E type \in {"origin", "destination"} :
       Patient /\ handleMenuItemClick(type)
  \/ \E i \in 1..MaxPending : GeocodeResponse(i, "ok")
  \/ \E i \in 1..MaxSnapEditEvents : DirectionsResponse(i, "ok")
  \/ \E type \in {"origin", "destination"}, c \in RouteCoords :
       Patient /\ handleCurrentMarkerDrag(type, c)
  \/ \E type \in {"origin", "destination"} :
       Patient /\ handleCurrentMarkerDragEnd(type)
  \/ \E i \in 1..MaxPending : DebounceTimerFires(i)
  \/ \E layer \in InteractiveLayers : Patient /\ handleMouseDown(layer)
  \/ \E c \in RouteCoords : Patient /\ handleMouseUp(c)
  \/ \E i \in 1..MaxPending, matched \in RouteCoords : SnapResponse(i, matched)
  \/ Patient /\ SaveRoute

SpecSnapEdit == InitSnapEdit /\ [][NextSnapEdit]_vars

----------------------------------------------------------------------------
(* Claims *)

Complete(cr) ==
  IsSet(cr.origin) /\ IsSet(cr.destination) /\ cr.geometry # NullGeometry

BothSet(cr) == IsSet(cr.origin) /\ IsSet(cr.destination)

\* [origin, rerouteSnapPoint if set, destination] of a route with both endpoints
InputList(cr) ==
  IF cr.rerouteSnapPoint \in {null, undefined}
  THEN <<cr.origin.coordinates, cr.destination.coordinates>>
  ELSE <<cr.origin.coordinates, cr.rerouteSnapPoint,
         cr.destination.coordinates>>

Blank(cr) ==
  /\ cr.origin = NullWaypoint
  /\ cr.destination = NullWaypoint
  /\ cr.rerouteSnapPoint = null
  /\ cr.geometry = NullGeometry

\* C1: Save Route on a complete current route appends exactly one saved route
\* that carries the current origin, destination and geometry under the id c
\* the counter holds, leaves a blank current route of id c + 1 and moves the
\* counter to c + 1; the first save gives saved id 1 and current id 2.
C1_PromoteAppendsAndResets ==
  [][(app = AppMain /\ op' = "SaveRoute" /\ Complete(currentRoute))
       => /\ Len(routes') = Len(routes) + 1
          /\ SubSeq(routes', 1, Len(routes)) = routes
          /\ routes'[Len(routes')].id = routeCounter
          /\ routes'[Len(routes')].origin = currentRoute.origin
          /\ routes'[Len(routes')].destination = currentRoute.destination
          /\ routes'[Len(routes')].geometry = currentRoute.geometry
          /\ Blank(currentRoute')
          /\ currentRoute'.id = routeCounter + 1
          /\ routeCounter' = routeCounter + 1
          /\ (routes = <<>> => routes'[1].id = 1 /\ currentRoute'.id = 2)]_vars

C1_Witness ==
  /\ app = AppMain
  /\ op = "SaveRoute"
  /\ Len(routes) = 1
  /\ routes[1].id = 1
  /\ IsSet(routes[1].origin) /\ routes[1].geometry # NullGeometry
  /\ currentRoute.id = 2
  /\ Blank(currentRoute)

\* C2: Save Route (App.tsx) and Save Location (part_005) on a current route
\* that lacks its origin, its destination or its geometry change neither the
\* saved routes, nor the counter, nor the current route.
C2_PartialSaveIsNoOp ==
  [][(op' \in {"SaveRoute", "SaveLocation"} /\ ~Complete(currentRoute))
       => /\ routes' = routes
          /\ routeCounter' = routeCounter
          /\ currentRoute' = currentRoute]_vars

C2_Witness ==
  /\ op = "SaveRoute"
  /\ BothSet(currentRoute)
  /\ currentRoute.geometry = NullGeometry
  /\ Len(routes) = 1
  /\ routeCounter = 2

\* C3: through every sequence of saves and removals no two saved routes share
\* an id, the ids are given in strictly increasing order (so none is given
\* again after a removal), every saved route carries an id a save gave, and
\* the id of the current route App.tsx starts after a save is greater than
\* every id given so far (so it is the id of no saved route).
C3_IdsUniqueAndIncreasing ==
  /\ \A i, j \in DOMAIN routes : i # j => routes[i].id # routes[j].id
  /\ \A i, j \in DOMAIN assigned : i < j => assigned[i] < assigned[j]
  /\ \A i \in DOMAIN routes : \E k \in DOMAIN assigned : assigned[k] = routes[i].id
  /\ app = AppMain
       => /\ \A k \in DOMAIN assigned : currentRoute.id > assigned[k]
          /\ \A i \in DOMAIN routes : currentRoute.id # routes[i].id

\* Route 1 was removed after route 2 was saved, then a third save came
C3_Witness ==
  /\ app = AppSaved
  /\ op = "SaveLocation"
  /\ assigned = <<1, 2, 3>>
  /\ Len(routes) = 2
  /\ routes[1].id = 2
  /\ routes[2].id = 3

EndpointOps ==
  {"handleMenuItemClick", "AddressEntry.onSelect", "debouncedUpdateRoute"}

DependencyOps ==
  EndpointOps \cup {"handleCurrentMarkerDrag", "snapPointToRoad"}

\* C4: a change of the origin coordinates, the destination coordinates or the
\* snap point with both endpoints present issues a directions request over
\* [origin, snap point if set, destination]; no request is issued while an
\* endpoint is absent; a non-empty response writes its first route's geometry
\* to the current route.
C4_RefetchOnChange ==
  [][/\ (op' \in DependencyOps /\ BothSet(currentRoute'))
          => \E k \in DOMAIN issued' :
               issued'[k].coordinates = InputList(currentRoute')
     /\ ~BothSet(currentRoute') => issued' = <<>>
     /\ op' = "fetchRoute.ok"
          => /\ reply'.kind = "directions"
             /\ Len(dirInFlight') = Len(dirInFlight) - 1
             /\ currentRoute'.geometry =
                  Geometry(reply'.coordinates)]_vars

\* C5: an endpoint change by the context menu, an address selection or a
\* marker drag end issues exactly one directions request when both endpoints
\* are present afterwards, and none before (origin set, then destination set,
\* fires one call in all).
C5_OneRequestPerChange ==
  op \in EndpointOps
    => Len(issued) = (IF BothSet(currentRoute) THEN 1 ELSE 0)

\* C6: every directions request is built from the origin, snap point and
\* destination the current route holds when the request is issued.
C6_RequestFromLatestInputs ==
  \A k \in DOMAIN issued :
    BothSet(currentRoute) /\ issued[k].coordinates = InputList(currentRoute)

\* C7: a directions response without routes, or a failed fetch, leaves the
\* geometry and every other field of the current route, and the saved
\* routes, as they were.
C7_FailedFetchKeepsState ==
  [][op' \in {"fetchRoute.empty", "fetchRoute.error"}
       => currentRoute' = currentRoute /\ routes' = routes]_vars

C7_Witness ==
  /\ op = "fetchRoute.empty"
  /\ currentRoute.geometry # NullGeometry
  /\ currentRoute.geometry # Geometry(InputList(currentRoute))

\* C8: every failed directions call (no routes, or a failed fetch) emits one
\* notice.
C8_FailureNoticeOnce ==
  op \in {"fetchRoute.empty", "fetchRoute.error"} => notices = 1

\* C9: a step that changes the origin, the destination or the snap point of
\* the current route leaves it without geometry: the geometry stays empty
\* from the change until the response for the new inputs is applied.
C9_GeometryClearedOnChange ==
  [][op' \in DependencyOps => currentRoute'.geometry = NullGeometry]_vars

\* C10: a current route with a geometry has its origin and its destination.
C10_GeometryNeedsEndpoints ==
  currentRoute.geometry # NullGeometry => BothSet(currentRoute)

\* C11: the response of a directions request that arrives after the response
\* of a request issued later has been applied leaves the geometry as it is:
\* an older response does not overwrite the geometry of a newer one.
C11_ResponsesInOrder ==
  [][(app = AppMain /\ reply'.kind = "directions" /\ reply'.overtaken)
       => currentRoute'.geometry = currentRoute.geometry]_vars

\* C12: no reverse-geocoding call is issued for a coordinate whose key (the
\* coordinate rounded to 5 decimals) an earlier call has resolved to a place:
\* resolving such a coordinate again is served from the cache, whatever steps
\* came between.
C12_OneCallPerKey ==
  [][(app = AppMain /\ op' = "reverseGeocode")
       => Quantize(geoInFlight'[Len(geoInFlight')].lngLat) \notin resolved]_vars

\* C13: a reverse-geocoding call that returns no feature or fails gives the
\* endpoint the address "Unknown Location" and adds no entry to any cache;
\* an address is served without a network call only for a key that a call
\* has resolved to a place, so the next resolution of a coordinate whose
\* call failed issues a new call.
C13_FailureNotCached ==
  [][app = AppMain
       => /\ (reply'.kind = "geocode" /\ reply'.data # "ok")
               => /\ currentRoute'[reply'.type].address
                       = UnknownLocation
                  /\ \A r \in RenderIds : caches'[r] \subseteq caches[r]
          /\ (op' = "handleMenuItemClick" /\ reply'.kind = "none")
               => Quantize(contextMenu.lngLat) \in resolved
          /\ (op' = "debouncedUpdateRoute" /\ reply'.kind = "none")
               => Quantize(timers[1].lngLat) \in resolved]_vars

\* The call for the origin failed, and the origin is being resolved again at
\* the same key by a second call
C13_Witness ==
  /\ app = AppMain
  /\ op = "reverseGeocode"
  /\ IsSet(currentRoute.origin)
  /\ currentRoute.origin.address = UnknownLocation
  /\ geoInFlight[Len(geoInFlight)].type = "origin"
  /\ Quantize(geoInFlight[Len(geoInFlight)].lngLat)
       = Quantize(currentRoute.origin.coordinates)
  /\ resolved = {}

\* C14: a key that a reverse-geocoding call has cached with an address is in
\* the cache of the component in every later state.
C14_CacheAppendOnly ==
  app = AppMain => \A key \in resolved : CacheHas(caches[rid], key)

\* C15: the moves of one burst (gaps under 500 ms) made while the line is
\* held issue one map-matching request, for the coordinate of the last move:
\* when the debounce timer of a move of the drag issues its request, no timer
\* of a later move of that drag is pending.
C15_OneSnapPerBurst ==
  [][(op' = "debouncedSnapPointToRoad" /\ isDragging /\ snapTimers[1].held)
       => \A k \in DOMAIN snapTimers' : ~snapTimers'[k].held]_vars

\* C16: the snap result of a pointer-move is written to the snap point only
\* while the line is still dragged and only when it is the snap of the
\* coordinate of the most recent move (the move whose timer was started
\* last, while a timer is pending).
C16_MoveResultCurrent ==
  [][(app = AppMain /\ reply'.kind = "snap" /\ reply'.src = "move"
        /\ reply'.written)
       => /\ isDragging'
          /\ snapTimers' # <<>>
               => snapTimers'[Len(snapTimers')].lngLat = reply'.point]_vars

\* C17: a release while the line is dragged over a route with a geometry
\* issues one map-matching request, for the release coordinate, and the
\* controller stays Dragging until the result of that request is written to
\* the snap point, which returns it to Idle; a release while Idle issues no
\* request and changes nothing.
C17_ReleaseSnapsThenIdle ==
  [][app = AppMain
       => /\ (op' = "handleMouseUp" /\ isDragging
                 /\ currentRoute.geometry # NullGeometry)
               => /\ Len(snapInFlight') = Len(snapInFlight) + 1
                  /\ snapInFlight'[Len(snapInFlight')].src = "up"
                  /\ SubSeq(snapInFlight', 1, Len(snapInFlight)) = snapInFlight
                  /\ isDragging'
          /\ (reply'.kind = "snap" /\ reply'.src = "up")
               => /\ currentRoute'.rerouteSnapPoint = reply'.value
                  /\ isDragging /\ ~isDragging'
          /\ (op' = "handleMouseUp" /\ ~isDragging)
               => /\ snapInFlight' = snapInFlight
                  /\ UNCHANGED <<currentRoute, routes, isDragging, snapTimers,
                                 dirInFlight>>]_vars

\* C18: the controller leaves Idle only by a pointer-down whose top feature
\* is of the route line of the current route; a pointer-down anywhere else
\* leaves it Idle, and so does every pointer-down when the snapping flag is
\* off; a pointer-move while Idle starts no timer and issues no request.
C18_DragStartsOnRouteLine ==
  [][app = AppMain
       => /\ (~isDragging /\ isDragging')
               => /\ op' = "handleMouseDown"
                  /\ reply'.kind = "pointer"
                  /\ reply'.layer = currentRoute.id
                  /\ currentRoute.geometry # NullGeometry
          /\ (op' = "handleMouseDown" /\ ~isDragging
                 /\ reply'.layer # currentRoute.id)
               => ~isDragging'
          /\ \A layer \in {NoFeature} \cup 0..MaxEvents :
               ~StartsDrag(FALSE, layer, currentRoute.id)
          /\ (op' = "handleMouseMove" /\ ~isDragging)
               => /\ snapTimers' = snapTimers
                  /\ snapInFlight' = snapInFlight
                  /\ issued' = <<>>]_vars

\* The press on the line of the current route started a drag
C18_Witness ==
  /\ app = AppMain
  /\ op = "handleMouseDown"
  /\ reply.kind = "pointer"
  /\ reply.layer = currentRoute.id
  /\ isDragging

\* C19: snapPointToRoad gives its caller the first coordinate of the first
\* matching when the response has one, and the point it was given on a
\* failed fetch, a malformed response and a response without matching.
C19_SnapNeverFails ==
  [][(app = AppMain /\ reply'.kind = "snap")
       => reply'.value = (IF reply'.data \in Coords THEN reply'.data
                          ELSE reply'.point)]_vars

\* C20: of two edits of one endpoint the later one wins: the address
\* resolution of an edit that completes after the resolution of a later edit
\* of that endpoint has been applied leaves the endpoint as it is.
C20_LastEditWins ==
  [][(app = AppMain /\ reply'.kind = "geocode" /\ reply'.overtaken)
       => currentRoute'[reply'.type] = currentRoute[reply'.type]]_vars

\* C21: the response of the directions request of an edit of a saved route
\* writes its geometry to the route object that was edited when that object
\* is still saved, changes no other saved route, and the component stays
\* mounted, whatever was removed and saved since the edit.
C21_EditScopedToRoute ==
  [][(app = AppSaved /\ reply'.kind = "directions" /\ reply'.to # 0
        /\ reply'.data = "ok")
       => /\ app' = AppSaved
          /\ Len(routes') = Len(routes)
          /\ \A k \in DOMAIN routes :
               IF routes[k].ref = reply'.edited
               THEN routes'[k].geometry = Geometry(reply'.coordinates)
               ELSE routes'[k] = routes[k]]_vars

\* C22: removeRoute of the route at an index deletes that route and nothing
\* else: the routes before it stay where they are, the routes after it move
\* up by one place, each with its id, endpoints and geometry, and the
\* counter and the current route are unchanged.
C22_RemoveExactlyOne ==
  [][(app = AppSaved /\ op' = "removeRoute")
       => /\ reply'.kind = "remove"
          /\ Len(routes') = Len(routes) - 1
          /\ \A k \in DOMAIN routes' :
               routes'[k] = (IF k < reply'.index THEN routes[k]
                             ELSE routes[k + 1])
          /\ routeCounter' = routeCounter
          /\ currentRoute' = currentRoute]_vars

\* The first of two saved routes was removed: route 2 is left, as it was
C22_Witness ==
  /\ app = AppSaved
  /\ op = "removeRoute"
  /\ reply.kind = "remove" /\ reply.index = 1
  /\ Len(routes) = 1
  /\ routes[1].id = 2
  /\ routes[1].geometry # NullGeometry
  /\ routeCounter = 3

\* C23: the timer of a text of two characters or fewer, the empty text
\* included, empties the suggestions and issues no forward-geocoding
\* request, and no other step of the component issues one.
C23_ShortQueryNoCall ==
  [][app = AppEntry
       => /\ (op' = "setTimeout" /\ Len(reply'.newValue) <= 2)
               => /\ suggestions' = <<>>
                  /\ geoInFlight' = geoInFlight
          /\ Len(geoInFlight') > Len(geoInFlight)
               => /\ op' = "setTimeout"
                  /\ Len(geoInFlight'[Len(geoInFlight')].query) > 2]_vars

\* The timer of a text of two characters ran: no suggestion, no request
C23_Witness ==
  /\ app = AppEntry
  /\ op = "setTimeout"
  /\ Len(reply.newValue) = 2
  /\ inputValue = reply.newValue
  /\ suggestions = <<>>
  /\ geoInFlight = <<>>
  /\ budget < MaxEntryEvents - 1

\* C24: every change of the input leaves one timer pending, the one of the
\* text just typed, so the texts typed before it in the burst never reach
\* the service; when the timer runs, it issues one request, for its text,
\* if the text has more than two characters, and none otherwise.
C24_SearchDebounced ==
  [][app = AppEntry
       => /\ op' = "handleChange"
               => /\ Len(timers') = 1
                  /\ timers'[1].newValue = inputValue'
                  /\ geoInFlight' = geoInFlight
          /\ op' = "setTimeout"
               => /\ timers' = <<>>
                  /\ geoInFlight' =
                       (IF Len(reply'.newValue) > 2
                        THEN Append(geoInFlight, [query |-> reply'.newValue])
                        ELSE geoInFlight)]_vars

\* A burst of three changes ended in one request, for the last text
C24_Witness ==
  /\ app = AppEntry
  /\ op = "setTimeout"
  /\ reply.burst = 3
  /\ Len(geoInFlight) = 1
  /\ geoInFlight[1].query = inputValue
  /\ timers = <<>>

\* The routes of rs that have distance d, in their order
OfDistance(rs, d) == SelectSeq(rs, LAMBDA r : r.distance = d)

IsPrefix(s, t) == Len(s) <= Len(t) /\ s = SubSeq(t, 1, Len(s))

\* C25: the list getRoutes sets never holds two routes with the same
\* coordinate sequence.
C25_NoDuplicatePaths ==
  [][(app = AppAlt /\ op' = "setRoutes")
       => \A i, j \in DOMAIN routes' :
            i < j => routes'[i].geometry # routes'[j].geometry]_vars

\* C26: the list getRoutes sets is in ascending order of distance, so its
\* first route, the one selected, is the shortest of the list.
C26_SortedByDistance ==
  [][(app = AppAlt /\ op' = "setRoutes")
       => /\ selectedRouteIndex' = 0
          /\ \A i, j \in DOMAIN routes' :
               i < j => routes'[i].distance <= routes'[j].distance]_vars

\* C27: routes of one distance keep the order in which they were requested:
\* in the array of a call and in the list it sets, the routes of each
\* distance are the first ones of that distance among the candidates, in the
\* order of the candidates; a list made of the native alternatives alone is
\* their stable sort by distance, cut to maxRouteCount.
C27_StableSort ==
  [][app = AppAlt
       => /\ \A i \in DOMAIN calls', d \in Distances :
               OfDistance(calls'[i].data, d)
                 = OfDistance(calls'[i].candidates, d)
          /\ op' = "setRoutes"
               => /\ \A d \in Distances :
                       IsPrefix(OfDistance(routes', d),
                                OfDistance(reply'.candidates, d))
                  /\ reply'.requests = 1
                       => /\ \A i, j \in DOMAIN routes' :
                               i < j
                                 => routes'[i].distance <= routes'[j].distance
                          /\ \A d \in Distances :
                               (\E k \in DOMAIN routes' :
                                  routes'[k].distance > d)
                                 => OfDistance(routes', d)
                                      = OfDistance(reply'.candidates, d)]_vars

\* The service returned distances 120, 95, 95: the first route of distance
\* 95 is the primary route, the second one follows
C27_Witness ==
  /\ app = AppAlt
  /\ op = "setRoutes"
  /\ Len(reply.candidates) = 3
  /\ reply.candidates[1].distance = 120
  /\ reply.candidates[2].distance = 95
  /\ reply.candidates[3].distance = 95
  /\ reply.candidates[2] # reply.candidates[3]
  /\ routes = <<reply.candidates[2], reply.candidates[3]>>
  /\ selectedRouteIndex = 0

\* C28: a call has a via-point request pending only while its array holds
\* fewer than maxRouteCount routes and a via point is left; each response
\* uses up one of the via points the call started with (at most
\* maxRouteCount) and is followed by one more request or by the end of the
\* call; a call makes at most 1 + maxRouteCount requests and sets at most
\* maxRouteCount routes.
C28_BoundedAttempts ==
  [][app = AppAlt
       => /\ \A i \in DOMAIN calls' :
               /\ calls'[i].requests <= 1 + maxRouteCount
               /\ calls'[i].pc = "via"
                    => /\ Len(calls'[i].data) < maxRouteCount
                       /\ calls'[i].viaPoints > 0
                       /\ calls'[i].viaPoints + calls'[i].requests
                            <= 2 + maxRouteCount
          /\ (op' = "fetchRoute" /\ Len(calls) = 1 /\ calls[1].pc = "via")
               => /\ calls'[1].viaPoints = calls[1].viaPoints - 1
                  /\ calls'[1].requests = calls[1].requests + 1
          /\ op' = "setRoutes"
               => /\ Len(routes') <= maxRouteCount
                  /\ reply'.requests <= 1 + maxRouteCount
                  /\ calls' = <<>>]_vars

\* No native route, the first via route accepted, the second rejected: the
\* via points are used up after three requests, one route is set
C28_Witness ==
  /\ app = AppAlt
  /\ op = "setRoutes"
  /\ reply.requests = 3
  /\ Len(routes) = 1
  /\ calls = <<>>

\* A response that reports a failed call: no feature or a failed fetch for a
\* reverse-geocoding call, no route or a failed fetch for a directions call,
\* no matching for a snap call
FailedCall(r) ==
  \/ r.kind = "geocode" /\ r.data # "ok"
  \/ r.kind = "directions" /\ r.data # "ok"
  \/ r.kind = "snap" /\ r.data \notin Coords

\* C29: a failed geocode, directions or snap call is not retried.  The step
\* that handles the failure issues no request of the kind that failed and
\* starts no timer for one; and when the failure is the last thing that
\* happened, a step that is neither a gesture of the user nor a timer a
\* gesture started issues no directions request for the coordinates of the
\* request that failed.
C29_NoAutomaticRetry ==
  [][(app = AppMain /\ budget' = budget /\ reply'.kind # "none")
       => /\ (reply'.kind = "geocode" /\ FailedCall(reply'))
               => /\ Len(geoInFlight') = Len(geoInFlight) - 1
                  /\ timers' = timers
          /\ (reply'.kind = "directions" /\ FailedCall(reply'))
               => /\ issued' = <<>>
                  /\ Len(dirInFlight') = Len(dirInFlight) - 1
          /\ (reply'.kind = "snap" /\ FailedCall(reply'))
               => /\ Len(snapInFlight') = Len(snapInFlight) - 1
                  /\ snapTimers' = snapTimers
          /\ (reply.kind = "directions" /\ FailedCall(reply))
               => \A k \in DOMAIN issued' :
                    issued'[k].coordinates # reply.coordinates]_vars

\* C30: the current route that Save Route starts stays blank until the user
\* acts on it.  A blank current route has no line to drag, no marker to drag
\* and issues no directions request, so a directions response, a snap result
\* and the address resolution of a marker release that reach it were asked
\* for before the promotion: none of them writes into it.
C30_FreshRouteStaysEmpty ==
  [][(/\ app = AppMain
      /\ routes # <<>>
      /\ Blank(currentRoute)
      /\ budget' = budget
      /\ \/ reply'.kind \in {"directions", "snap"}
         \/ op' = "debouncedUpdateRoute")
       => Blank(currentRoute')]_vars

\* C31: the geometry Save Route stores in a saved route is the directions
\* result for the origin, the snap point if there is one, and the destination
\* that the current route holds at the click.
C31_SavedGeometryCurrent ==
  [][(app = AppMain /\ op' = "SaveRoute" /\ Len(routes') = Len(routes) + 1)
       => /\ routes'[Len(routes')].origin = currentRoute.origin
          /\ routes'[Len(routes')].destination = currentRoute.destination
          /\ routes'[Len(routes')].geometry
               = Geometry(InputList(currentRoute))]_vars

\* C32: once the snap result of the release of a drag has been written to the
\* snap point, no snap result of a pointer-move made before the release is
\* written over it: with the release result being the last thing that
\* happened, the response of a request of a pointer-move leaves the snap
\* point at the release result.
C32_ReleaseResultLast ==
  [][(/\ app = AppMain
      /\ reply.kind = "snap" /\ reply.src = "up" /\ reply.written
      /\ budget' = budget
      /\ reply'.kind = "snap" /\ reply'.src = "move")
       => currentRoute'.rerouteSnapPoint = reply.value]_vars


\* C33: setting or moving an endpoint of the current route (context menu,
\* address selection, marker drag and its release) leaves the snap point as
\* it is; a snap point that is set becomes null only by Save Route; and with
\* a snap point set, every directions request that an endpoint change issues
\* goes through it.
C33_SnapPointKept ==
  [][app = AppMain
       => /\ op' \in EndpointOps \cup {"handleCurrentMarkerDrag"}
               => /\ currentRoute'.rerouteSnapPoint
                       = currentRoute.rerouteSnapPoint
                  /\ currentRoute'.rerouteSnapPoint \in Coords
                       => \A k \in DOMAIN issued' :
                            /\ Len(issued'[k].coordinates) = 3
                            /\ issued'[k].coordinates[2]
                                 = currentRoute'.rerouteSnapPoint
          /\ (currentRoute.rerouteSnapPoint # null
                 /\ currentRoute'.rerouteSnapPoint = null)
               => op' = "SaveRoute"]_vars

\* C34: the suggestions of the address entry belong to the latest query.  A
\* list that shows the features of the text in the input is not replaced by
\* the response of a search for another text; and while the input shows a
\* selected place name (no text the user can have typed since), the list is
\* empty, whatever timer or request was pending at the selection.
C34_SuggestionsOfLatestQuery ==
  [][app = AppEntry
       => /\ (suggestions # <<>> /\ suggestions = Features(inputValue)
                 /\ op' = "setSuggestions")
               => (suggestions' = suggestions \/ reply'.query = inputValue)
          /\ inputValue' \notin Texts => suggestions' = <<>>]_vars

\* C35: (part_006) whenever the route list is not empty the selected index
\* is an index of it; and the list set by the call of getRoutes that returns
\* last, no call being left open, is the list fetched for the pair of points
\* the component holds.
C35_IndexValidListCurrent ==
  [][app = AppAlt
       => /\ routes' # <<>>
               => selectedRouteIndex' \in 0..(Len(routes') - 1)
          /\ (op' = "setRoutes" /\ calls' = <<>>)
               => reply'.points = points']_vars

\* C36: (part_006) a click on a route feature, the selected route or an
\* alternative, leaves the points as they are and changes at most the
\* selected index, to the route clicked; a click off the routes adds the
\* point while there are fewer than two and replaces one closest point, and
\* no other, when there are two; there are never more than two points.
C36_RouteClickKeepsPoints ==
  [][(app = AppAlt /\ reply'.kind = "click")
       => /\ reply'.feature # NoFeature
               => /\ points' = points
                  /\ routes' = routes
                  /\ selectedRouteIndex'
                       \in {selectedRouteIndex, reply'.feature}
          /\ Len(points') <= 2
          /\ (reply'.feature = NoFeature /\ Len(points) < 2)
               => points' = Append(points, reply'.lngLat)
          /\ (reply'.feature = NoFeature /\ Len(points) = 2)
               => \E i \in DOMAIN points :
                    /\ points' = [points EXCEPT ![i] = reply'.lngLat]
                    /\ \A j \in DOMAIN points :
                         Hypot2(points[i], reply'.lngLat)
                           <= Hypot2(points[j], reply'.lngLat)]_vars

\* C37: (part_005) a current route that exists has its origin, whatever the
\* order of context-menu actions, their address lookups and Save Location; a
\* Set As Destination made without an origin of the current route leaves the
\* current route as it is and changes at most the destination of the route
\* that was saved last when it was made, and nothing when no route was saved.
C37_DestinationNeedsOrigin ==
  [][app = AppSaved
       => /\ (app' = AppSaved /\ currentRoute'.present)
               => IsSet(currentRoute'.origin)
          /\ (reply'.kind = "geocode" /\ reply'.type = "destination"
                /\ reply'.branch \in {"latest", "none"})
               => /\ currentRoute' = currentRoute
                  /\ Len(routes') = Len(routes)
                  /\ \A k \in DOMAIN routes :
                       IF reply'.branch = "latest"
                            /\ routes[k].ref = reply'.latest
                       THEN [routes'[k] EXCEPT
                               !.destination = routes[k].destination]
                              = routes[k]
                       ELSE routes'[k] = routes[k]]_vars

====
